---- MODULE Spec2Model ----
(***************************************************************************)
(* Model of the college crawler's content extraction pipeline:             *)
(*   - the AI enrichment adapter (processors/ai_processor.py),             *)
(*   - the top-level extraction calls and their merge step                 *)
(*     (extractors/admission.py, extractors/placement.py),                 *)
(*   - the field extractors (seats, placement statistics, historical      *)
(*     data, recruiters, application deadlines, hostel facilities),        *)
(*   - the table extraction of the base extractor (extractors/base.py),    *)
(*   - the crawl of one college (crawler/crawler.py) as started by the     *)
(*     runner (run_crawler_debug.py), and its page classification,         *)
(*   - the processing of the stored documents (process_crawled_data of     *)
(*     run_crawler_debug.py and main_simplified.py).                       *)
(*                                                                         *)
(* Numbers that are floats in the source are kept exact as decimals        *)
(* [n, scale] standing for n / 10^scale, without trailing zeros: 8.5 is    *)
(* [n |-> 85, scale |-> 1].  Confidence scores are kept in hundredths:     *)
(* 0.7 is 70.                                                              *)
(***************************************************************************)
EXTENDS Integers, Sequences, FiniteSets, TLC

VARIABLES
    forceHealthy,        \* os.environ["FORCE_API_HEALTHY"] == "true"
    endpointConfigured,  \* api_endpoints.get("answer_question") is truthy
    ctype,               \* content type handled: "admission" | "placement"
    bpc,                 \* position of the adapter coroutine
    task,                \* field -> state of its ask_question task
    posted,              \* fields for which session.post was issued
    responses,           \* value of `await asyncio.gather(*tasks)`
    results,             \* dict returned by process_*_content
    adapter,             \* self.ai_processor of the extractor
    content,             \* content argument of extract_*_data
    oracle,              \* what the upstream would answer, per field
    xpc,                 \* position of the extraction call
    record,              \* record returned by extract_*_data
    arg,                 \* argument of the field extractor under study
    ret,                 \* its return value
    fpc,                 \* position of the field extractor call
    keywords,            \* self.admission_keywords / self.placement_keywords
    runs,                \* records returned by the runs on one extractor
    clock,               \* datetime.now()
    options,             \* the runner's arguments: --max-pages, the college
    max_pages,           \* crawler.max_pages, set by the runner
    visited_urls,        \* self.visited_urls
    queued_urls,         \* self.queued_urls
    paths,               \* admission and placement paths still to process
    stored,              \* page documents inserted by process_url
    fetched,             \* URL -> number of fetches in this crawl_college
    cpc,                 \* position of crawl_college
    raw_data,            \* the raw_data collection
    processed_data,      \* the processed_data collection
    pending,             \* documents process_crawled_data has still to visit
    processed_count,     \* processed_count of the current or last run
    finished,            \* completed runs of process_crawled_data
    ppc                  \* position of process_crawled_data

batteryVars == <<bpc, task, posted, responses, results>>
extractVars == <<adapter, content, oracle, xpc, record>>
fieldVars   == <<arg, ret, fpc>>
envVars     == <<forceHealthy, endpointConfigured, ctype>>
runVars     == <<keywords, runs, clock>>
crawlVars   == <<options, max_pages, visited_urls, queued_urls, paths, stored,
                 fetched, cpc>>
procVars    == <<raw_data, processed_data, pending, processed_count,
                 finished, ppc>>
vars == <<forceHealthy, endpointConfigured, ctype, bpc, task, posted,
          responses, results, adapter, content, oracle, xpc, record,
          arg, ret, fpc, keywords, runs, clock, options, max_pages,
          visited_urls, queued_urls, paths, stored, fetched, cpc,
          raw_data, processed_data, pending, processed_count, finished,
          ppc>>

(***************************************************************************)
(* The fixed question batteries.                                           *)
(***************************************************************************)
AdmissionQuestions ==
    << "application_deadlines", "courses_offered", "seats_available",
       "fee_structure", "hostel_facilities", "eligibility_criteria" >>

PlacementQuestions ==
    << "statistics", "recruiters", "historical_data",
       "alternative_paths", "internships", "recruitment_types" >>

Questions(t) == IF t = "admission" THEN AdmissionQuestions ELSE PlacementQuestions

Range(s) == { s[i] : i \in DOMAIN s }

FieldsOf(t) == Range(Questions(t))

AllFields == FieldsOf("admission") \cup FieldsOf("placement")

ContentTypes == { "admission", "placement" }

\* Outcomes of one upstream request, as seen by ask_question.
Outcomes == { "ok_answer", "ok_empty", "non200", "timeout", "transport_error" }

FailedOutcomes == { "non200", "timeout", "transport_error" }

\* The answer text of a 200 response that carries an answer.
AIAnswer == "ai_answer"

DefaultConfidence == 70

AdapterConfidence == 85

FallbackConfidence == 80

\* A Python dict with string keys: the key set, the answers and the score.
EmptyDict == [ kind |-> "dict", keys |-> {}, val |-> [ f \in AllFields |-> "" ], conf |-> 0 ]

\* The coroutine object that calling an `async def` without await returns.
Coroutine == [ kind |-> "coroutine", keys |-> {}, val |-> [ f \in AllFields |-> "" ], conf |-> 0 ]

Truthy(d) == d.kind = "coroutine" \/ d.keys # {}

\* The record variable before the call has returned.
NoRecord == [ status |-> "none",
              data |-> [ f \in AllFields |-> [ src |-> "rule", val |-> "empty" ] ],
              conf |-> 0 ]

\* The call left by an exception instead of returning a record.
Raised == [ NoRecord EXCEPT !.status = "raised" ]

(***************************************************************************)
(* AIProcessor.process_admission_content / process_placement_content       *)
(***************************************************************************)

\* A failed request hands back the error text instead of an empty answer.
ask_question_leaky(field, outcome) ==
    << field, IF outcome = "ok_answer" THEN AIAnswer
              ELSE IF outcome = "ok_empty" THEN ""
              ELSE "error" >>

\* ask_question: the (field, answer) pair of one task.
ask_question(field, outcome) ==
    IF outcome = "ok_answer" THEN << field, AIAnswer >>
    ELSE IF outcome = "ok_empty" THEN << field, "" >>
    ELSE IF outcome = "non200" THEN << field, "" >>
    ELSE << field, "" >>

\* The response loop without the `if answer` filter.
ProcessResponsesUnfiltered(resp) ==
    [ kind |-> "dict",
      keys |-> { resp[i][1] : i \in DOMAIN resp } \cup { "confidence_score" },
      val  |-> [ f \in AllFields |->
                   IF \E i \in DOMAIN resp : resp[i][1] = f
                   THEN (CHOOSE a \in { resp[i][2] : i \in { j \in DOMAIN resp : resp[j][1] = f } } : TRUE)
                   ELSE "" ],
      conf |-> AdapterConfidence ]

\* "Process responses" and "Add confidence score".
ProcessResponses(resp) ==
    [ kind |-> "dict",
      keys |-> { resp[i][1] : i \in { j \in DOMAIN resp : resp[j][2] # "" } }
                 \cup { "confidence_score" },
      val  |-> [ f \in AllFields |->
                   IF \E i \in DOMAIN resp : resp[i][1] = f /\ resp[i][2] # ""
                   THEN (CHOOSE a \in { resp[i][2] : i \in { j \in DOMAIN resp : resp[j][1] = f } } : TRUE)
                   ELSE "" ],
      conf |-> AdapterConfidence ]

IdleTask == [ st |-> "none", outcome |-> "none" ]

IdleTasks == [ f \in AllFields |-> IdleTask ]

\* Entry of the coroutine up to the endpoint check; the tasks are created
\* by the list comprehension that feeds asyncio.gather.
StartBattery ==
    /\ bpc = "idle"
    /\ IF ~endpointConfigured
       THEN /\ bpc' = "returned"
            /\ results' = EmptyDict
            /\ task' = task
       ELSE /\ bpc' = "gathering"
            /\ results' = results
            /\ task' = [ f \in AllFields |->
                           IF f \in FieldsOf(ctype)
                           THEN [ st |-> "created", outcome |-> "none" ]
                           ELSE IdleTask ]
    /\ UNCHANGED <<posted, responses>>
    /\ UNCHANGED envVars
    /\ UNCHANGED runVars
    /\ UNCHANGED crawlVars
    /\ UNCHANGED procVars
    /\ UNCHANGED extractVars
    /\ UNCHANGED fieldVars

\* A task runs to its first suspension: session.post is issued.  The event
\* loop starts the tasks in creation order.
PostRequest(i) ==
    /\ bpc = "gathering"
    /\ i \in DOMAIN Questions(ctype)
    /\ task[Questions(ctype)[i]].st = "created"
    /\ \A j \in 1..(i - 1) : task[Questions(ctype)[j]].st # "created"
    /\ task' = [ task EXCEPT ![Questions(ctype)[i]].st = "inflight" ]
    /\ posted' = posted \cup { Questions(ctype)[i] }
    /\ UNCHANGED <<bpc, responses, results>>
    /\ UNCHANGED envVars
    /\ UNCHANGED runVars
    /\ UNCHANGED crawlVars
    /\ UNCHANGED procVars
    /\ UNCHANGED extractVars
    /\ UNCHANGED fieldVars

\* A request completes, in any order, with any outcome.
CompleteRequest(f, o) ==
    /\ bpc = "gathering"
    /\ task[f].st = "inflight"
    /\ task' = [ task EXCEPT ![f] = [ st |-> "done", outcome |-> o ] ]
    /\ UNCHANGED <<bpc, posted, responses, results>>
    /\ UNCHANGED envVars
    /\ UNCHANGED runVars
    /\ UNCHANGED crawlVars
    /\ UNCHANGED procVars
    /\ UNCHANGED extractVars
    /\ UNCHANGED fieldVars

\* asyncio.gather returns once every task is done, results in task order.
Join ==
    /\ bpc = "gathering"
    /\ \A f \in FieldsOf(ctype) : task[f].st = "done"
    /\ responses' = [ i \in DOMAIN Questions(ctype) |->
                        ask_question(Questions(ctype)[i], task[Questions(ctype)[i]].outcome) ]
    /\ results' = ProcessResponses(responses')
    /\ bpc' = "returned"
    /\ UNCHANGED <<task, posted>>
    /\ UNCHANGED envVars
    /\ UNCHANGED runVars
    /\ UNCHANGED crawlVars
    /\ UNCHANGED procVars
    /\ UNCHANGED extractVars
    /\ UNCHANGED fieldVars

IdleExtract ==
    /\ adapter = "none"
    /\ content = [ isNull |-> FALSE, mentions |-> {} ]
    /\ oracle = [ f \in AllFields |-> "ok_empty" ]
    /\ xpc = "idle"
    /\ record = NoRecord

(***************************************************************************)
(* The state an extractor instance and a crawler instance hold.            *)
(***************************************************************************)
admission_keywords ==
    [ dates_deadlines |->
          << "application deadline", "last date", "admission date",
             "important dates", "admission schedule",
             "last date to apply", "registration deadline" >>,
      courses |->
          << "courses offered", "available courses", "programs",
             "specializations", "branches", "disciplines", "degrees",
             "courses available" >>,
      capacity |->
          << "total seats", "seat matrix", "intake", "capacity",
             "available seats", "reservation", "category", "quota",
             "vacant" >>,
      financial |->
          << "fee structure", "fees", "tuition", "scholarship",
             "payment schedule", "fee payment", "waiver",
             "financial aid", "loan" >>,
      facilities |->
          << "hostel facility", "hostel availability",
             "accomodation", "boys hostel", "girls hostel",
             "amenities", "infrastructure", "campus facility" >>,
      eligibility |->
          << "eligibility criteria", "minimum marks", "cut-off",
             "entrance exam", "qualifying exam",
             "admission criteria", "required percentage", "jee",
             "gate" >> ]

placement_keywords ==
    [ statistics |->
          << "average package", "highest package", "lowest package",
             "median salary", "placement statistics",
             "average salary", "mean package", "placement record" >>,
      companies |->
          << "recruiting companies", "top recruiters",
             "companies visited", "participating companies",
             "recruitment partners", "hiring partners",
             "campus recruiters", "top companies" >>,
      placement_percentage |->
          << "placement percentage", "students placed",
             "placement rate", "placed students", "placement ratio",
             "placement record", "eligible students" >>,
      internships |->
          << "internship", "summer training", "industrial training",
             "summer internship", "winter internship",
             "internship offers", "industrial exposure" >>,
      recruiters |->
          << "recruiters", "hiring companies", "companies visited",
             "industry partners", "recruitment drive",
             "placement drive", "campus placement" >>,
      sectors |->
          << "industry sectors", "sector wise", "domain wise",
             "industry segments", "verticals", "industries",
             "fields", "streams" >> ]

\* The keyword dictionary __init__ builds.
InstanceKeywords(t) == IF t = "admission" THEN admission_keywords ELSE placement_keywords

IdleRuns ==
    /\ keywords = InstanceKeywords(ctype)
    /\ runs = << >>
    /\ clock = 0

\* CollegeCrawler.__init__
IdleCrawl ==
    /\ options = << >>
    /\ max_pages = << >>
    /\ visited_urls = {}
    /\ queued_urls = {}
    /\ paths = << >>
    /\ stored = {}
    /\ fetched = << >>
    /\ cpc = "idle"

\* Empty collections, process_crawled_data not called.
IdleProcess ==
    /\ raw_data = << >>
    /\ processed_data = << >>
    /\ pending = << >>
    /\ processed_count = 0
    /\ finished = 0
    /\ ppc = "idle"

IdleField ==
    /\ arg = << >>
    /\ ret = << >>
    /\ fpc = "idle"

InitBattery ==
    /\ forceHealthy \in BOOLEAN
    /\ endpointConfigured \in BOOLEAN
    /\ ctype \in ContentTypes
    /\ IdleRuns
    /\ IdleCrawl
    /\ IdleProcess
    /\ bpc = "idle"
    /\ task = IdleTasks
    /\ posted = {}
    /\ responses = << >>
    /\ results = EmptyDict
    /\ IdleExtract
    /\ IdleField

NextBattery ==
    \/ StartBattery
    \/ \E i \in 1..6 : PostRequest(i)
    \/ \E f \in AllFields, o \in Outcomes : CompleteRequest(f, o)
    \/ Join

SpecBattery == InitBattery /\ [][NextBattery]_vars

(***************************************************************************)
(* AdmissionExtractor.extract_admission_data and                           *)
(* PlacementExtractor.extract_placement_data                               *)
(***************************************************************************)

\* A field value of the record: who produced it and what it holds.
RuleValue(f, c) ==
    IF f \in c.mentions
    THEN [ src |-> "rule", val |-> "mined" ]
    ELSE [ src |-> "rule", val |-> "empty" ]

\* The six sub-extractor calls of the dict literal.
RuleBased(t, c) ==
    [ f \in AllFields |->
        IF f \in FieldsOf(t) THEN RuleValue(f, c)
        ELSE [ src |-> "rule", val |-> "empty" ] ]

\* What the battery hands back once awaited to completion.
AwaitedCall(t, orc, cfg) ==
    IF ~cfg THEN EmptyDict
    ELSE ProcessResponses([ i \in DOMAIN Questions(t) |->
                              ask_question(Questions(t)[i], orc[Questions(t)[i]]) ])

\* An adapter that answers every question with a stock sentence.
PlaceholderCall(t, orc, cfg) ==
    [ kind |-> "dict",
      keys |-> FieldsOf(t) \cup { "confidence_score" },
      val  |-> [ f \in AllFields |-> IF f \in FieldsOf(t) THEN "placeholder" ELSE "" ],
      conf |-> AdapterConfidence ]

\* self.ai_processor.process_*_content(text_content, tables): the method is
\* `async def` and the call site has no await, so the value is a coroutine
\* object and the body of the method never runs.
SyncCall(t, orc, cfg) == Coroutine

\* The merge loop and the confidence update, inside the try block.
MergeAI(t, rec, enhanced) ==
    IF ~Truthy(enhanced) THEN rec
    ELSE IF enhanced.kind = "coroutine" THEN rec
    ELSE [ rec EXCEPT
             !.data = [ f \in AllFields |->
                          IF /\ f \in enhanced.keys
                             /\ enhanced.val[f] # ""
                             /\ f \in FieldsOf(t)
                          THEN [ src |-> "ai", val |-> enhanced.val[f] ]
                          ELSE rec.data[f] ],
             !.conf = IF "confidence_score" \in enhanced.keys
                      THEN enhanced.conf
                      ELSE FallbackConfidence ]

ExtractData(t, c, ad, orc, cfg) ==
    IF c.isNull THEN Raised
    ELSE LET base == [ status |-> "returned",
                       data   |-> RuleBased(t, c),
                       conf   |-> DefaultConfidence ]
         IN  IF ad = "none" THEN base
             ELSE MergeAI(t, base, SyncCall(t, orc, cfg))

extract_admission_data(c, ad, orc, cfg) == ExtractData("admission", c, ad, orc, cfg)

extract_placement_data(c, ad, orc, cfg) == ExtractData("placement", c, ad, orc, cfg)

ExtractAdmission ==
    /\ xpc = "ready"
    /\ ctype = "admission"
    /\ record' = extract_admission_data(content, adapter, oracle, endpointConfigured)
    /\ xpc' = "done"
    /\ UNCHANGED <<adapter, content, oracle>>
    /\ UNCHANGED envVars
    /\ UNCHANGED runVars
    /\ UNCHANGED crawlVars
    /\ UNCHANGED procVars
    /\ UNCHANGED batteryVars
    /\ UNCHANGED fieldVars

ExtractPlacement ==
    /\ xpc = "ready"
    /\ ctype = "placement"
    /\ record' = extract_placement_data(content, adapter, oracle, endpointConfigured)
    /\ xpc' = "done"
    /\ UNCHANGED <<adapter, content, oracle>>
    /\ UNCHANGED envVars
    /\ UNCHANGED runVars
    /\ UNCHANGED crawlVars
    /\ UNCHANGED procVars
    /\ UNCHANGED batteryVars
    /\ UNCHANGED fieldVars

IdleBattery ==
    /\ bpc = "idle"
    /\ task = IdleTasks
    /\ posted = {}
    /\ responses = << >>
    /\ results = EmptyDict

\* Documents handed to the extractors: a null document, or text in which a
\* chosen set of fields can be mined.
Contents(t) ==
    { [ isNull |-> TRUE, mentions |-> {} ] } \cup
    { [ isNull |-> FALSE, mentions |-> m ] :
        m \in { {}, FieldsOf(t), { Questions(t)[2] }, FieldsOf(t) \ { Questions(t)[2] } } }

OracleOutcomes == { "ok_answer", "ok_empty", "timeout" }

Init ==
    /\ forceHealthy = FALSE
    /\ endpointConfigured \in BOOLEAN
    /\ ctype \in ContentTypes
    /\ IdleRuns
    /\ IdleCrawl
    /\ IdleProcess
    /\ adapter \in { "none", "AIProcessor" }
    /\ content \in Contents(ctype)
    /\ oracle \in { o \in [ AllFields -> OracleOutcomes ] :
                      \A f \in AllFields \ FieldsOf(ctype) : o[f] = "ok_empty" }
    /\ xpc = "ready"
    /\ record = NoRecord
    /\ IdleBattery
    /\ IdleField

Next ==
    \/ ExtractAdmission
    \/ ExtractPlacement

Spec == Init /\ [][Next]_vars

(***************************************************************************)
(* Properties of the extraction call and its merge step (Spec).            *)
(***************************************************************************)

\* The answer the adapter's battery holds for field f once it has run.
AdapterAnswer(f) ==
    IF adapter = "AIProcessor" /\ endpointConfigured /\ oracle[f] = "ok_answer"
    THEN AIAnswer
    ELSE ""

\* C1: AI merge precedence.  When extract_admission_data runs with the AI
\* adapter, the upstream answers courses_offered with a non-empty answer and
\* the rule-based courses_offered is non-empty as well, the returned record's
\* courses_offered is the adapter's answer (whole-field replacement).
C1_AIMergePrecedence ==
    ( /\ xpc = "done"
      /\ ctype = "admission"
      /\ adapter = "AIProcessor"
      /\ ~content.isNull
      /\ "courses_offered" \in content.mentions
      /\ AdapterAnswer("courses_offered") # "" )
    => /\ record.status = "returned"
       /\ record.data["courses_offered"] = [ src |-> "ai", val |-> AIAnswer ]

\* C4: the top-level extraction call never fails; a document from which no
\* sub-extractor obtains anything yields a record whose leaves are all
\* none/empty with the default confidence score.
C4_NeverFails ==
    xpc = "done"
    => /\ record.status = "returned"
       /\ ( content.mentions = {} =>
              /\ \A f \in FieldsOf(ctype) : record.data[f].val = "empty"
              /\ record.conf = DefaultConfidence )

C3_ForceHealthyNoUpstream ==
    forceHealthy
    => /\ posted = {}
       /\ ( ( bpc = "returned" /\ endpointConfigured ) =>
              results = PlaceholderCall(ctype, oracle, endpointConfigured) )

\* C5: the battery returns only after all six questions have completed; a
\* question that timed out, hit a transport error or got a non-200 status
\* yields an empty answer, and the answers of the other questions are still
\* collected, whatever the order of completion.
C5_GatherJoinIsolation ==
    ( bpc = "returned" /\ endpointConfigured )
    => /\ \A f \in FieldsOf(ctype) : task[f].st = "done"
       /\ Len(responses) = Len(Questions(ctype))
       /\ \A i \in DOMAIN Questions(ctype) :
            LET f == Questions(ctype)[i] IN
            /\ responses[i][1] = f
            /\ ( task[f].outcome \in FailedOutcomes => responses[i][2] = "" )
            /\ ( task[f].outcome = "ok_answer" =>
                   /\ responses[i][2] = AIAnswer
                   /\ f \in results.keys
                   /\ results.val[f] = AIAnswer )

\* A returned battery in which one question timed out, one hit a transport
\* error, one got a non-200 status and another one was answered.
C5_Witness ==
    /\ bpc = "returned"
    /\ endpointConfigured
    /\ \E f, g, h, k \in FieldsOf(ctype) :
          /\ task[f].outcome = "timeout"
          /\ task[g].outcome = "transport_error"
          /\ task[h].outcome = "non200"
          /\ task[k].outcome = "ok_answer"
          /\ results.val[k] = AIAnswer
          /\ results.val[f] = ""

\* The fields of a result dict, the confidence score aside.
ResultFields(d) == d.keys \ { "confidence_score" }

\* C6 (as claimed): the set of fields in the result returned by the battery
\* is exactly the set of fields asked, whichever questions failed or
\* returned empty answers.
C6_ResultFieldsEqualAsked ==
    ( bpc = "returned" /\ endpointConfigured )
    => ResultFields(results) = FieldsOf(ctype)

\* C6 (amended): the gathered responses hold exactly one (field, answer)
\* pair per field asked, and the returned result holds exactly the fields
\* whose answer is non-empty, next to the confidence score.
C6_ResultFieldsAreAnswered ==
    ( bpc = "returned" /\ endpointConfigured )
    => /\ Len(responses) = Len(Questions(ctype))
       /\ \A i \in DOMAIN Questions(ctype) : responses[i][1] = Questions(ctype)[i]
       /\ ResultFields(results) =
            { f \in FieldsOf(ctype) : task[f].outcome = "ok_answer" }
       /\ "confidence_score" \in results.keys

\* A returned battery with an answered question, an empty answer and a
\* failed question.
C6_Witness ==
    /\ bpc = "returned"
    /\ endpointConfigured
    /\ \E f, g, h \in FieldsOf(ctype) :
          /\ task[f].outcome = "ok_answer"
          /\ task[g].outcome = "ok_empty"
          /\ task[h].outcome = "non200"
          /\ f \in results.keys
          /\ g \notin results.keys
          /\ h \notin results.keys

(***************************************************************************)
(* Text and tables as the field extractors see them.                       *)
(*                                                                         *)
(* A text is a sequence of phrases; a phrase records which regular         *)
(* expression family it can match and the number it carries.  A table is   *)
(* what extract_tables emits: headers and raw_rows.  A cell is a string:   *)
(* `s` is its text, `num` tells whether int() accepts it and `n` is the    *)
(* integer it then denotes.                                                *)
(***************************************************************************)
MaxRows == 2

MaxPhrases == 2

NumCell(k) == [ num |-> TRUE, n |-> k, s |-> ToString(k) ]

TextCell(t) == [ num |-> FALSE, n |-> 0, s |-> t ]

\* Sequences over S of length 0..k.
SeqUpTo(S, k) == UNION { [ 1..m -> S ] : m \in 0..k }

Max(a, b) == IF a >= b THEN a ELSE b

\* The keywords of the extractors' header tests that occur in a (lowercased)
\* header text.
KeywordsIn(h) ==
    CASE h = "category"    -> { "category" }
      [] h = "quota count" -> { "quota", "count" }
      [] h = "seats"       -> { "seats" }
      [] h = "capacity"    -> { "capacity" }
      [] h = "average package" -> { "package" }
      [] h = "students placed" -> { "placed" }
      [] h = "particulars"     -> { "particular" }
      [] h = "date"            -> { "date" }
      [] h = "last date"       -> { "date", "last date" }
      [] h = "important dates" -> { "date", "important dates" }
      [] h = "event"           -> { "event" }
      [] h = "schedule"        -> {}
      [] h = "company"         -> { "company" }
      [] h = "recruiter name"  -> { "recruiter" }
      [] h = "year"            -> { "year" }
      [] h = "academic year"   -> { "year", "academic year" }
      [] h = "batch"           -> { "batch" }
      [] h = "avg package"     -> { "package" }
      [] h = "% placed"        -> { "%", "placed" }
      [] h = "placement percentage" -> { "percentage" }
      [] OTHER             -> {}

HasAny(h, kws) == KeywordsIn(h) \cap kws # {}

(***************************************************************************)
(* AdmissionExtractor._extract_seats                                       *)
(***************************************************************************)
category_headers == { "category", "reservation", "quota" }

seats_headers == { "seats", "number", "capacity", "count" }

\* total_patterns, in order: each pattern with the phrasings it accepts.
total_patterns ==
    << [ id |-> "total_seats",       accepts |-> { "total_seats" } ],
       [ id |-> "total_intake",      accepts |-> { "total_intake" } ],
       [ id |-> "college_has_seats", accepts |-> { "college_has_seats" } ] >>

\* re.search: the leftmost phrase the pattern matches, 0 if none.
Search(pattern, text) ==
    IF \E i \in DOMAIN text : text[i].kind \in pattern.accepts
    THEN CHOOSE i \in DOMAIN text :
            /\ text[i].kind \in pattern.accepts
            /\ \A j \in 1..(i - 1) : text[j].kind \notin pattern.accepts
    ELSE 0

\* The loop over total_patterns: the first pattern that matches wins.
RECURSIVE TotalFromText(_, _)
TotalFromText(text, k) ==
    IF k > Len(total_patterns) THEN << >>
    ELSE IF Search(total_patterns[k], text) # 0
         THEN << text[Search(total_patterns[k], text)].n >>
         ELSE TotalFromText(text, k + 1)

\* The column loop: the last header naming a category, and the last header
\* that names no category but names seats; 0 stands for None.
CategoryCol(headers) ==
    LET S == { i \in DOMAIN headers : HasAny(headers[i], category_headers) }
    IN  IF S = {} THEN 0 ELSE CHOOSE i \in S : \A j \in S : j <= i

SeatsCol(headers) ==
    LET S == { i \in DOMAIN headers :
                 /\ ~HasAny(headers[i], category_headers)
                 /\ HasAny(headers[i], seats_headers) }
    IN  IF S = {} THEN 0 ELSE CHOOSE i \in S : \A j \in S : j <= i

\* d[k] = v on a dict.
Put(d, k, v) == [ x \in DOMAIN d \cup { k } |-> IF x = k THEN v ELSE d[x] ]

EmptyMap == [ x \in {} |-> TextCell("") ]

\* The row loop of one table: int(seats) on success, the string otherwise.
RECURSIVE SeatRows(_, _, _, _)
SeatRows(cw, rows, cc, sc) ==
    IF rows = << >> THEN cw
    ELSE LET row == Head(rows)
         IN  SeatRows(IF Len(row) >= Max(cc, sc)
                      THEN Put(cw, row[cc].s, row[sc])
                      ELSE cw,
                      Tail(rows), cc, sc)

\* The table loop.
RECURSIVE SeatTables(_, _)
SeatTables(cw, tables) ==
    IF tables = << >> THEN cw
    ELSE LET t  == Head(tables)
             cc == CategoryCol(t.headers)
             sc == SeatsCol(t.headers)
         IN  SeatTables(IF /\ \E i \in DOMAIN t.headers : HasAny(t.headers[i], category_headers)
                           /\ cc # 0
                           /\ sc # 0
                        THEN SeatRows(cw, t.raw_rows, cc, sc)
                        ELSE cw,
                        Tail(tables))

RECURSIVE SumOver(_, _)
SumOver(d, keys) ==
    IF keys = {} THEN 0
    ELSE LET k == CHOOSE x \in keys : TRUE
         IN  d[k].n + SumOver(d, keys \ { k })

\* The derivation refuses to sum as soon as one value is not numeric.
DeriveTotalAllOrNothing(total, cw) ==
    IF total = << >> /\ DOMAIN cw # {} /\ \A k \in DOMAIN cw : cw[k].num
    THEN << SumOver(cw, DOMAIN cw) >>
    ELSE total

\* The derivation replaces a total found in the text.
DeriveTotalAlways(total, cw) ==
    IF { k \in DOMAIN cw : cw[k].num } # {}
    THEN << SumOver(cw, { k \in DOMAIN cw : cw[k].num }) >>
    ELSE total

\* "If total is still None, try to sum up category-wise values".
DeriveTotal(total, cw) ==
    IF total = << >> /\ DOMAIN cw # {}
    THEN LET numeric_values == { k \in DOMAIN cw : cw[k].num }
         IN  IF numeric_values # {}
             THEN << SumOver(cw, numeric_values) >>
             ELSE total
    ELSE total

extract_seats(text, tables) ==
    LET cw == SeatTables(EmptyMap, tables)
    IN  [ total         |-> DeriveTotal(TotalFromText(text, 1), cw),
          category_wise |-> cw ]

\* Inputs of the seat extractor.
SeatPhrases ==
    { [ kind |-> "total_seats", n |-> 120 ],
      [ kind |-> "total_intake", n |-> 60 ],
      [ kind |-> "college_has_seats", n |-> 200 ],
      [ kind |-> "other", n |-> 0 ] }

SeatHeaders ==
    { << "category", "seats" >>, << "seats", "category" >>,
      << "category", "remarks" >>, << "course", "seats" >>,
      << "quota count", "capacity" >> }

SeatRowSet ==
    { << TextCell(c) >> : c \in { "General", "OBC" } } \cup
    { << TextCell(c), v >> : c \in { "General", "OBC" },
                             v \in { NumCell(50), NumCell(27), TextCell("TBA") } }

SeatTableSet ==
    { [ headers |-> h, raw_rows |-> r ] :
        h \in SeatHeaders, r \in SeqUpTo(SeatRowSet, MaxRows) \ { << >> } }

\* A second table of the same page, listing one more category.
ExtraSeatTable ==
    [ headers |-> << "category", "seats" >>,
      raw_rows |-> << << TextCell("SC"), NumCell(15) >> >> ]

SeatInputs ==
    { [ text |-> t, tables |-> tb ] :
        t  \in SeqUpTo(SeatPhrases, MaxPhrases),
        tb \in { << >> } \cup { << x >> : x \in SeatTableSet }
                         \cup { << x, ExtraSeatTable >> :
                                  x \in { y \in SeatTableSet : Len(y.raw_rows) = 1 } } }

InitSeats ==
    /\ forceHealthy = FALSE
    /\ endpointConfigured = TRUE
    /\ ctype = "admission"
    /\ IdleRuns
    /\ IdleCrawl
    /\ IdleProcess
    /\ IdleBattery
    /\ IdleExtract
    /\ arg \in SeatInputs
    /\ ret = << >>
    /\ fpc = "ready"

CallExtractSeats ==
    /\ fpc = "ready"
    /\ ret' = extract_seats(arg.text, arg.tables)
    /\ fpc' = "done"
    /\ UNCHANGED arg
    /\ UNCHANGED envVars
    /\ UNCHANGED runVars
    /\ UNCHANGED crawlVars
    /\ UNCHANGED procVars
    /\ UNCHANGED batteryVars
    /\ UNCHANGED extractVars

NextSeats == CallExtractSeats

SpecSeats == InitSeats /\ [][NextSeats]_vars

(***************************************************************************)
(* Properties of the seat extractor (SpecSeats).                           *)
(***************************************************************************)
NoTotalPhrase(text) == \A i \in DOMAIN text : text[i].kind = "other"

AllNumeric(cw) == \A k \in DOMAIN cw : cw[k].num

\* C9 (as claimed): when no total-seats phrase matches the text and at least
\* one category_wise value is non-numeric, seats_available.total stays none.
C9_MixedDataSkipsTotal ==
    ( /\ fpc = "done"
      /\ NoTotalPhrase(arg.text)
      /\ ~AllNumeric(ret.category_wise) )
    => ret.total = << >>

\* C9 (amended): when no total-seats phrase matches the text, the total is
\* the sum of the numeric category_wise values, the non-numeric ones being
\* left out; it stays none only when no category value is numeric.
C9_MixedDataSumsNumeric ==
    ( /\ fpc = "done"
      /\ NoTotalPhrase(arg.text)
      /\ ~AllNumeric(ret.category_wise) )
    => LET cw  == ret.category_wise
           num == { k \in DOMAIN cw : cw[k].num }
       IN  IF num = {} THEN ret.total = << >>
           ELSE ret.total = << SumOver(cw, num) >>

\* A table with one numeric and one non-numeric category and no total in
\* the text: the total is the numeric value alone.
C9_Witness ==
    /\ fpc = "done"
    /\ NoTotalPhrase(arg.text)
    /\ DOMAIN ret.category_wise = { "General", "OBC" }
    /\ ret.category_wise["General"] = NumCell(50)
    /\ ret.category_wise["OBC"] = TextCell("TBA")
    /\ ret.total = << 50 >>

\* C10 (as claimed): when no total-seats phrase matches the text and every
\* category_wise value is an integer, the total is the sum of the
\* category_wise values; when a total phrase matches, the phrase's value is
\* kept.
C10_TotalDerivation ==
    fpc = "done"
    => /\ ( /\ NoTotalPhrase(arg.text)
            /\ AllNumeric(ret.category_wise) )
          => ret.total = << SumOver(ret.category_wise, DOMAIN ret.category_wise) >>
       /\ ~NoTotalPhrase(arg.text)
          => \E i \in DOMAIN arg.text :
                /\ arg.text[i].kind # "other"
                /\ ret.total = << arg.text[i].n >>

\* C10 (amended): when no total-seats phrase matches the text, category_wise
\* is not empty and every one of its values is an integer, the total is the
\* sum of the category_wise values; with an empty category_wise the total
\* stays none; when a total phrase matches, the value of the first pattern
\* that matches is kept.
C10_TotalDerivationNonEmpty ==
    fpc = "done"
    => /\ ( /\ NoTotalPhrase(arg.text)
            /\ DOMAIN ret.category_wise # {}
            /\ AllNumeric(ret.category_wise) )
          => ret.total = << SumOver(ret.category_wise, DOMAIN ret.category_wise) >>
       /\ ( /\ NoTotalPhrase(arg.text)
            /\ DOMAIN ret.category_wise = {} )
          => ret.total = << >>
       /\ ~NoTotalPhrase(arg.text)
          => ret.total = TotalFromText(arg.text, 1)

\* Two numeric categories over two tables and no total in the text.
C10_Witness ==
    /\ fpc = "done"
    /\ NoTotalPhrase(arg.text)
    /\ DOMAIN ret.category_wise = { "General", "SC" }
    /\ ret.category_wise["General"] = NumCell(50)
    /\ ret.category_wise["SC"] = NumCell(15)
    /\ ret.total = << 65 >>

(***************************************************************************)
(* PlacementExtractor._extract_placement_statistics                        *)
(*                                                                         *)
(* A number of the text is held in tenths (`v`: 8.5 is 85); `head` is the  *)
(* part before the first comma of a comma-grouped number (equal to `v`     *)
(* when the number has no comma); `unit` is the word that follows it.      *)
(***************************************************************************)
Stats ==
    << "avg_package", "highest_package", "median_package",
       "students_placed_count", "total_students", "placement_percentage" >>

\* One regular expression: the phrasings it accepts, whether the text of
\* the pattern contains "lakh" or "lac" (as in "placed", "placement"), and
\* whether its group takes comma-grouped digits.
Pat(id, accepts, lakh, commas) ==
    [ id |-> id, accepts |-> accepts, lakh |-> lakh, commas |-> commas ]

patterns ==
    [ s \in Range(Stats) |->
        CASE s = "avg_package" ->
               << Pat("avg1", { "avg_is", "avg_colon" }, TRUE, FALSE),
                  Pat("avg2", { "avg_of", "avg_colon" }, FALSE, TRUE) >>
          [] s = "highest_package" ->
               << Pat("high1", { "high_is", "high_colon" }, TRUE, FALSE),
                  Pat("high2", { "high_of", "high_colon" }, FALSE, TRUE),
                  Pat("high3", { "max_is" }, TRUE, FALSE) >>
          [] s = "median_package" ->
               << Pat("med1", { "med_is", "med_colon" }, TRUE, FALSE),
                  Pat("med2", { "med_of", "med_colon" }, FALSE, TRUE) >>
          [] s = "students_placed_count" ->
               << Pat("cnt1", { "n_students_were_placed" }, TRUE, FALSE),
                  Pat("cnt2", { "number_of_students_placed" }, TRUE, FALSE),
                  Pat("cnt3", { "placed_n_students" }, TRUE, FALSE) >>
          [] s = "total_students" ->
               << Pat("tot1", { "total_students" }, FALSE, FALSE),
                  Pat("tot2", { "n_students_were_eligible" }, FALSE, FALSE),
                  Pat("tot3", { "batch_size" }, FALSE, FALSE) >>
          [] OTHER ->
               << Pat("pct1", { "placement_percentage" }, TRUE, FALSE),
                  Pat("pct2", { "pct_students_placed" }, TRUE, FALSE),
                  Pat("pct3", { "placement_rate" }, TRUE, FALSE) >> ]

\* A decimal without trailing zeros after the point.
RECURSIVE Norm(_)
Norm(d) ==
    IF d.scale > 0 /\ d.n % 10 = 0
    THEN Norm([ n |-> d.n \div 10, scale |-> d.scale - 1 ])
    ELSE d

\* float() of a number of the text, given in tenths.
Float(tenths) == Norm([ n |-> tenths, scale |-> 1 ])

LakhLimit == 100

\* x / 100000
DivideByLakh(tenths) == Norm([ n |-> tenths, scale |-> 6 ])

\* match.group(1) of a pattern on a phrase, in tenths.
Group1(pattern, phrase) == IF pattern.commas THEN phrase.v ELSE phrase.head

\* The body of the text loop for one match: is_lakh is read off the
\* pattern, the magnitude test applies otherwise.
TextValue(pattern, phrase) ==
    IF pattern.lakh
    THEN Float(Group1(pattern, phrase))
    ELSE IF Group1(pattern, phrase) < LakhLimit * 10
         THEN Float(Group1(pattern, phrase))
         ELSE DivideByLakh(Group1(pattern, phrase))

\* The body of the table loop for one match.
RowValue(pattern, phrase) == Float(Group1(pattern, phrase))

\* The pattern loop of one statistic over a text: the first pattern that
\* matches decides.  `inText` selects the conversion of the text pass.
RECURSIVE FirstMatch(_, _, _, _)
FirstMatch(pats, k, text, inText) ==
    IF k > Len(pats) THEN << >>
    ELSE IF Search(pats[k], text) # 0
         THEN IF inText
              THEN << TextValue(pats[k], text[Search(pats[k], text)]) >>
              ELSE << RowValue(pats[k], text[Search(pats[k], text)]) >>
         ELSE FirstMatch(pats, k + 1, text, inText)

stat_headers == { "package", "salary", "ctc", "placed", "recruitment" }

SummaryRows == 3

\* The row loop of one table for one statistic that is still None.
RECURSIVE StatRows(_, _)
StatRows(s, rows) ==
    IF rows = << >> THEN << >>
    ELSE IF FirstMatch(patterns[s], 1, Head(rows), FALSE) # << >>
         THEN FirstMatch(patterns[s], 1, Head(rows), FALSE)
         ELSE StatRows(s, Tail(rows))

\* The table loop without the test that the statistic is still None.
RECURSIVE StatTablesOverwrite(_, _, _)
StatTablesOverwrite(s, value, tables) ==
    IF tables = << >> THEN value
    ELSE LET t == Head(tables)
         IN  StatTablesOverwrite(s,
                        IF /\ \E i \in DOMAIN t.headers : HasAny(t.headers[i], stat_headers)
                           /\ Len(t.raw_rows) <= SummaryRows
                           /\ StatRows(s, t.raw_rows) # << >>
                        THEN StatRows(s, t.raw_rows)
                        ELSE value,
                        Tail(tables))

\* The table loop for one statistic: only tables with a statistics header
\* and at most three data rows, and only while the statistic is None.
RECURSIVE StatTables(_, _, _)
StatTables(s, value, tables) ==
    IF tables = << >> THEN value
    ELSE LET t == Head(tables)
         IN  StatTables(s,
                        IF /\ value = << >>
                           /\ \E i \in DOMAIN t.headers : HasAny(t.headers[i], stat_headers)
                           /\ Len(t.raw_rows) <= SummaryRows
                        THEN StatRows(s, t.raw_rows)
                        ELSE value,
                        Tail(tables))

RECURSIVE Pow10(_)
Pow10(k) == IF k <= 0 THEN 1 ELSE 10 * Pow10(k - 1)

\* round(100 * placed / total, 2), ties to even.
RoundedPercentage(placed, total) ==
    LET e   == total.scale - placed.scale + 4
        num == placed.n * Pow10(e)
        den == total.n * Pow10(0 - e)
        q   == num \div den
        r   == num % den
        h   == IF 2 * r > den THEN q + 1
               ELSE IF 2 * r = den THEN q + (q % 2)
               ELSE q
    IN  Norm([ n |-> h, scale |-> 2 ])

\* "Calculate placement percentage if we have the necessary data".
DerivePercentage(st) ==
    IF /\ st["placement_percentage"] = << >>
       /\ st["students_placed_count"] # << >>
       /\ st["students_placed_count"][1].n # 0
       /\ st["total_students"] # << >>
       /\ st["total_students"][1].n # 0
    THEN [ st EXCEPT !["placement_percentage"] =
             << RoundedPercentage(st["students_placed_count"][1], st["total_students"][1]) >> ]
    ELSE st

extract_placement_statistics(text, tables) ==
    DerivePercentage(
        [ s \in Range(Stats) |->
            StatTables(s, FirstMatch(patterns[s], 1, text, TRUE), tables) ])

\* Inputs of the statistics extractor.
Phrase(kind, v, head, unit) == [ kind |-> kind, v |-> v, head |-> head, unit |-> unit ]

StatPhrases ==
    { Phrase("avg_is", 85, 85, ""),              \* average package is 8.5
      Phrase("avg_is", 8500000, 8500000, ""),    \* average package is 850000
      Phrase("avg_is", 85, 85, "lakh"),          \* average package is 8.5 lakh
      Phrase("avg_is", 1000, 1000, ""),          \* average package is 100
      Phrase("avg_is", 999, 999, ""),            \* average package is 99.9
      Phrase("avg_of", 8500000, 8500000, ""),    \* average package of 850000
      Phrase("avg_of", 8500000, 80, ""),         \* average package of 8,50,000
      Phrase("avg_colon", 120, 120, ""),         \* average package: 12
      Phrase("max_is", 450, 450, ""),            \* maximum package is 45
      Phrase("n_students_were_placed", 1800, 1800, ""),
      Phrase("placed_n_students", 500, 500, ""),
      Phrase("total_students", 2000, 2000, ""),
      Phrase("batch_size", 800, 800, ""),
      Phrase("placement_percentage", 900, 900, ""),
      Phrase("other", 0, 0, "") }

StatTableSet ==
    { [ headers  |-> << "particulars", "average package" >>,
        raw_rows |-> << << Phrase("avg_colon", 70, 70, "") >>,
                        << Phrase("med_colon", 60, 60, "") >> >> ],
      [ headers  |-> << "particulars", "value" >>,
        raw_rows |-> << << Phrase("avg_colon", 70, 70, "") >> >> ],
      [ headers  |-> << "year", "students placed" >>,
        raw_rows |-> << << Phrase("other", 0, 0, "") >>,
                        << Phrase("other", 0, 0, "") >>,
                        << Phrase("n_students_were_placed", 1500, 1500, "") >>,
                        << Phrase("total_students", 3000, 3000, "") >> >> ],
      [ headers  |-> << "students placed", "total" >>,
        raw_rows |-> << << Phrase("number_of_students_placed", 1500, 1500, ""),
                           Phrase("total_students", 3000, 3000, "") >> >> ] }

StatInputs ==
    { [ text |-> t, tables |-> tb ] :
        t  \in SeqUpTo(StatPhrases, MaxPhrases),
        tb \in { << >> } \cup { << x >> : x \in StatTableSet } }

InitStats ==
    /\ forceHealthy = FALSE
    /\ endpointConfigured = TRUE
    /\ ctype = "placement"
    /\ IdleRuns
    /\ IdleCrawl
    /\ IdleProcess
    /\ IdleBattery
    /\ IdleExtract
    /\ arg \in StatInputs
    /\ ret = << >>
    /\ fpc = "ready"

CallExtractStatistics ==
    /\ fpc = "ready"
    /\ ret' = extract_placement_statistics(arg.text, arg.tables)
    /\ fpc' = "done"
    /\ UNCHANGED arg
    /\ UNCHANGED envVars
    /\ UNCHANGED runVars
    /\ UNCHANGED crawlVars
    /\ UNCHANGED procVars
    /\ UNCHANGED batteryVars
    /\ UNCHANGED extractVars

NextStats == CallExtractStatistics

SpecStats == InitStats /\ [][NextStats]_vars

(***************************************************************************)
(* Properties of the statistics extractor (SpecStats).                     *)
(***************************************************************************)

\* The text is the single sentence "average package is X", X without unit.
AveragePackageIs(x) ==
    /\ arg.tables = << >>
    /\ arg.text = << Phrase("avg_is", x, x, "") >>

\* C2: for the text "average package is X" with no lakh/lac literal, the
\* stored avg_package is X when X < 100 and X / 100000 when X >= 100.
C2_PackageMagnitude ==
    \A x \in { ph.v : ph \in StatPhrases } :
        ( fpc = "done" /\ AveragePackageIs(x) )
        => ret["avg_package"] =
             << IF x < LakhLimit * 10 THEN Float(x) ELSE DivideByLakh(x) >>

PlacedKinds ==
    { "n_students_were_placed", "number_of_students_placed", "placed_n_students" }

TotalKinds == { "total_students", "n_students_were_eligible", "batch_size" }

\* The text states a students-placed count and a total-students count and
\* nothing else; there is no table.
CountAndTotal(i, j) ==
    /\ arg.tables = << >>
    /\ DOMAIN arg.text = { i, j }
    /\ arg.text[i].kind \in PlacedKinds
    /\ arg.text[j].kind \in TotalKinds
    /\ arg.text[j].v > 0

\* C11: for a text that states a students-placed count P and a
\* total-students count T > 0 and no percentage phrase, the returned
\* placement_percentage is round(100 * P / T, 2), for all P and T.
C11_PercentageDerivation ==
    \A i, j \in 1..MaxPhrases :
        ( fpc = "done" /\ CountAndTotal(i, j) )
        => ret["placement_percentage"] =
             << RoundedPercentage(Float(arg.text[i].v), Float(arg.text[j].v)) >>

\* C28: for a text stating "N students were placed" and "total students:
\* M", whatever the tables, students_placed_count is N and total_students
\* is M.
C28_CountsStoredAsMatched ==
    \A i, j \in 1..MaxPhrases :
        ( /\ fpc = "done"
          /\ DOMAIN arg.text = { i, j }
          /\ arg.text[i].kind = "n_students_were_placed"
          /\ arg.text[j].kind = "total_students" )
        => /\ ret["students_placed_count"] = << Float(arg.text[i].v) >>
           /\ ret["total_students"] = << Float(arg.text[j].v) >>

\* The value of statistic s after the text pass.
TextResult(s) == FirstMatch(patterns[s], 1, arg.text, TRUE)

\* A table with a statistics header and at most three data rows has a row
\* that a pattern of statistic s matches.
SummaryTableHas(s) ==
    \E k \in DOMAIN arg.tables :
        /\ \E i \in DOMAIN arg.tables[k].headers :
              HasAny(arg.tables[k].headers[i], stat_headers)
        /\ Len(arg.tables[k].raw_rows) <= SummaryRows
        /\ \E r \in DOMAIN arg.tables[k].raw_rows :
              \E p \in DOMAIN patterns[s] :
                 Search(patterns[s][p], arg.tables[k].raw_rows[r]) # 0

\* C22: a statistic that a text pattern matched keeps its text-derived
\* value whatever the tables hold; a statistic the text did not give is set
\* only from a table with a statistics header and at most three data rows
\* (placement_percentage may also be derived from the two counts).
C22_TableNeverOverwritesText ==
    fpc = "done"
    => \A s \in Range(Stats) :
          /\ TextResult(s) # << >> => ret[s] = TextResult(s)
          /\ ( /\ TextResult(s) = << >>
               /\ ~ SummaryTableHas(s)
               /\ s # "placement_percentage" )
             => ret[s] = << >>
          /\ ( TextResult(s) = << >> /\ SummaryTableHas(s) ) => ret[s] # << >>

\* The text gives the average package 8.5 and a summary table gives 7 for
\* it and 6 for the median: the average stays 8.5, the median is 6.
C22_Witness ==
    /\ fpc = "done"
    /\ arg.text = << Phrase("avg_is", 85, 85, "") >>
    /\ Len(arg.tables) = 1
    /\ arg.tables[1].raw_rows = << << Phrase("avg_colon", 70, 70, "") >>,
                                   << Phrase("med_colon", 60, 60, "") >> >>
    /\ ret["avg_package"] = << Float(85) >>
    /\ ret["median_package"] = << Float(60) >>

(***************************************************************************)
(* PlacementExtractor._extract_historical_data                             *)
(*                                                                         *)
(* The cells of a table are strings, held as sequences of one-character    *)
(* strings, so that the regular expressions and the cleaning of the        *)
(* source are computed on the characters.                                  *)
(***************************************************************************)
Digits == { "0", "1", "2", "3", "4", "5", "6", "7", "8", "9" }

DigitVal(c) ==
    CASE c = "0" -> 0 [] c = "1" -> 1 [] c = "2" -> 2 [] c = "3" -> 3
      [] c = "4" -> 4 [] c = "5" -> 5 [] c = "6" -> 6 [] c = "7" -> 7
      [] c = "8" -> 8 [] OTHER -> 9

\* str.strip()
RECURSIVE Strip(_)
Strip(cs) ==
    IF cs = << >> THEN cs
    ELSE IF Head(cs) = " " THEN Strip(Tail(cs))
    ELSE IF cs[Len(cs)] = " " THEN Strip(SubSeq(cs, 1, Len(cs) - 1))
    ELSE cs

\* (20\d\d)(?:[^0-9]|$) matches at position i.
FullYearAt(cs, i) ==
    /\ i + 3 <= Len(cs)
    /\ cs[i] = "2"
    /\ cs[i + 1] = "0"
    /\ cs[i + 2] \in Digits
    /\ cs[i + 3] \in Digits
    /\ ( i + 4 > Len(cs) \/ cs[i + 4] \notin Digits )

\* (\d\d)[^0-9](\d\d) matches at position i.
YearPairAt(cs, i) ==
    /\ i + 4 <= Len(cs)
    /\ cs[i] \in Digits
    /\ cs[i + 1] \in Digits
    /\ cs[i + 2] \notin Digits
    /\ cs[i + 3] \in Digits
    /\ cs[i + 4] \in Digits

\* year_match.group(1) of a stripped year cell, << >> when neither
\* expression matches: the four digits of the first, else the first two
\* digits of the second.
YearOf(cs) ==
    IF \E i \in DOMAIN cs : FullYearAt(cs, i)
    THEN LET i == CHOOSE k \in DOMAIN cs :
                    /\ FullYearAt(cs, k)
                    /\ \A j \in 1..(k - 1) : ~FullYearAt(cs, j)
         IN  << SubSeq(cs, i, i + 3) >>
    ELSE IF \E i \in DOMAIN cs : YearPairAt(cs, i)
    THEN LET i == CHOOSE k \in DOMAIN cs :
                    /\ YearPairAt(cs, k)
                    /\ \A j \in 1..(k - 1) : ~YearPairAt(cs, j)
         IN  << SubSeq(cs, i, i + 1) >>
    ELSE << >>

\* re.sub(r'[^\d.]', '', value)
Cleaned(cs) == SelectSeq(cs, LAMBDA c : c \in Digits \/ c = ".")

Dots(cs) == Len(SelectSeq(cs, LAMBDA c : c = "."))

\* float() accepts a cleaned string with a digit and at most one point.
FloatAccepts(cs) == Dots(cs) <= 1 /\ Len(cs) > Dots(cs)

RECURSIVE DigitsValue(_)
DigitsValue(ds) ==
    IF ds = << >> THEN 0
    ELSE 10 * DigitsValue(SubSeq(ds, 1, Len(ds) - 1)) + DigitVal(ds[Len(ds)])

\* Digits after the point.
RECURSIVE FractionLen(_)
FractionLen(cs) ==
    IF cs = << >> THEN 0
    ELSE IF cs[Len(cs)] = "." THEN 0
    ELSE IF Dots(cs) = 0 THEN 0
    ELSE 1 + FractionLen(SubSeq(cs, 1, Len(cs) - 1))

\* float() of an accepted string.
ParseFloat(cs) ==
    Norm([ n     |-> DigitsValue(SelectSeq(cs, LAMBDA c : c \in Digits)),
           scale |-> FractionLen(cs) ])

ZeroDecimal == [ n |-> 0, scale |-> 0 ]

\* A value of year_data: a float, the text f"{float}%", or the raw cell.
FloatValue(d) == [ form |-> "float", d |-> d, s |-> << >> ]

PercentText(d) == [ form |-> "percent", d |-> d, s |-> << >> ]

RawValue(cs) == [ form |-> "raw", d |-> ZeroDecimal, s |-> cs ]

year_keywords == { "year", "session", "batch", "academic year" }

stat_keywords == { "package", "placed", "salary", "ctc", "recruitment" }

package_keywords == { "package", "salary", "ctc" }

percentage_keywords == { "percentage", "%" }

\* The column loop; 0 stands for None, the last matching header wins.
LastOf(S) == IF S = {} THEN 0 ELSE CHOOSE i \in S : \A j \in S : j <= i

YearCol(headers) ==
    LastOf({ i \in DOMAIN headers : HasAny(headers[i], year_keywords) })

PackageCol(headers) ==
    LastOf({ i \in DOMAIN headers :
               /\ ~HasAny(headers[i], year_keywords)
               /\ HasAny(headers[i], package_keywords) })

PercentageCol(headers) ==
    LastOf({ i \in DOMAIN headers :
               /\ ~HasAny(headers[i], year_keywords)
               /\ ~HasAny(headers[i], package_keywords)
               /\ HasAny(headers[i], percentage_keywords) })

EmptyYearData == [ x \in {} |-> RawValue(<< >>) ]

\* "Extract package" / "Extract placement percentage" for one row.
YearData(row, pc, qc) ==
    LET withPackage ==
            IF pc # 0 /\ Len(row) >= pc /\ Cleaned(row[pc]) # << >>
            THEN Put(EmptyYearData, "avg_package",
                     IF FloatAccepts(Cleaned(row[pc]))
                     THEN FloatValue(ParseFloat(Cleaned(row[pc])))
                     ELSE RawValue(row[pc]))
            ELSE EmptyYearData
    IN  IF qc # 0 /\ Len(row) >= qc /\ Cleaned(row[qc]) # << >>
        THEN Put(withPackage, "placed",
                 IF FloatAccepts(Cleaned(row[qc]))
                 THEN PercentText(ParseFloat(Cleaned(row[qc])))
                 ELSE RawValue(row[qc]))
        ELSE withPackage

EmptyYearWise == [ x \in {} |-> EmptyYearData ]

\* The row loop of one table.
RECURSIVE HistRows(_, _, _, _, _)
HistRows(yw, rows, yc, pc, qc) ==
    IF rows = << >> THEN yw
    ELSE LET row  == Head(rows)
             year == IF Len(row) >= yc THEN YearOf(Strip(row[yc])) ELSE << >>
         IN  HistRows(IF year # << >> /\ DOMAIN YearData(row, pc, qc) # {}
                      THEN Put(yw, year[1], YearData(row, pc, qc))
                      ELSE yw,
                      Tail(rows), yc, pc, qc)

\* The table loop: tables with a year header and a statistics header.
RECURSIVE HistTables(_, _)
HistTables(yw, tables) ==
    IF tables = << >> THEN yw
    ELSE LET t == Head(tables)
         IN  HistTables(IF /\ \E i \in DOMAIN t.headers : HasAny(t.headers[i], year_keywords)
                           /\ \E i \in DOMAIN t.headers : HasAny(t.headers[i], stat_keywords)
                           /\ YearCol(t.headers) # 0
                        THEN HistRows(yw, t.raw_rows, YearCol(t.headers),
                                      PackageCol(t.headers), PercentageCol(t.headers))
                        ELSE yw,
                        Tail(tables))

extract_historical_data(text, tables) ==
    [ year_wise |-> HistTables(EmptyYearWise, tables) ]

\* Inputs of the historical-data extractor.
YearCells ==
    { << "2", "0", "2", "1" >>,                       \* 2021
      << "2", "0", "1", "9", "-", "2", "0" >>,        \* 2019-20
      << "1", "9", "-", "2", "0" >>,                  \* 19-20
      << " ", "2", "0", "2", "2", " " >>,             \* " 2022 "
      << "1", "9", "9", "9" >>,                       \* 1999
      << "2", "0", "2", "1", "5" >>,                  \* 20215
      << "n", "a" >> }                                \* na

ValueCells ==
    { << "8", ".", "5" >>,                            \* 8.5
      << "9", "0", "%" >>,                            \* 90%
      << "1", ".", "2", ".", "3" >>,                  \* 1.2.3
      << "n", "a" >> }                                \* na

HistHeaders ==
    { << "year", "avg package", "placement percentage" >>,
      << "academic year", "% placed" >>,
      << "batch", "students placed" >>,
      << "avg package", "year" >>,
      << "year", "remarks" >>,
      << "particulars", "avg package" >> }

HistRowSet ==
    { << y >> : y \in YearCells } \cup
    { << y, v >> : y \in YearCells, v \in ValueCells } \cup
    { << y, v, w >> : y \in { << "2", "0", "2", "1" >>, << "1", "9", "-", "2", "0" >> },
                      v \in ValueCells, w \in ValueCells }

\* A second row, which can repeat the year of the first.
HistSecondRows ==
    { << << "2", "0", "2", "1" >>, << "9", "0", "%" >> >>,
      << << "1", "9", "-", "2", "0" >>, << "8", ".", "5" >>, << "9", "0", "%" >> >>,
      << << "n", "a" >>, << "8", ".", "5" >> >> }

HistInputs ==
    { [ text |-> << >>, tables |-> tb ] :
        tb \in { << >> } \cup
               { << [ headers |-> h, raw_rows |-> r ] >> :
                   h \in HistHeaders,
                   r \in { << x >> : x \in HistRowSet } \cup
                         { << x, y >> : x \in HistRowSet, y \in HistSecondRows } } }

InitHist ==
    /\ forceHealthy = FALSE
    /\ endpointConfigured = TRUE
    /\ ctype = "placement"
    /\ IdleRuns
    /\ IdleCrawl
    /\ IdleProcess
    /\ IdleBattery
    /\ IdleExtract
    /\ arg \in HistInputs
    /\ ret = << >>
    /\ fpc = "ready"

CallExtractHistorical ==
    /\ fpc = "ready"
    /\ ret' = extract_historical_data(arg.text, arg.tables)
    /\ fpc' = "done"
    /\ UNCHANGED arg
    /\ UNCHANGED envVars
    /\ UNCHANGED runVars
    /\ UNCHANGED crawlVars
    /\ UNCHANGED procVars
    /\ UNCHANGED batteryVars
    /\ UNCHANGED extractVars

NextHist == CallExtractHistorical

SpecHist == InitHist /\ [][NextHist]_vars

(***************************************************************************)
(* Properties of the historical-data extractor (SpecHist).                 *)
(***************************************************************************)

\* C12: every key of historical_data.year_wise is a 4-digit year string,
\* for every table and every accepted year-cell format.
C12_YearKeysFourDigits ==
    fpc = "done"
    => \A y \in DOMAIN ret.year_wise :
          Len(y) = 4 /\ \A i \in DOMAIN y : y[i] \in Digits

(***************************************************************************)
(* PlacementExtractor._extract_recruiters                                  *)
(*                                                                         *)
(* A text is a sequence of items; an item that a company-section           *)
(* expression matches carries in `body` the characters of its group 1, an  *)
(* item that a total expression matches carries its number in `n`.         *)
(***************************************************************************)
UpperCase ==
    << "A", "B", "C", "D", "E", "F", "G", "H", "I", "J", "K", "L", "M",
       "N", "O", "P", "Q", "R", "S", "T", "U", "V", "W", "X", "Y", "Z" >>

LowerCase ==
    << "a", "b", "c", "d", "e", "f", "g", "h", "i", "j", "k", "l", "m",
       "n", "o", "p", "q", "r", "s", "t", "u", "v", "w", "x", "y", "z" >>

\* str.lower()
Lower(cs) ==
    [ i \in DOMAIN cs |->
        IF \E k \in DOMAIN UpperCase : UpperCase[k] = cs[i]
        THEN LowerCase[CHOOSE k \in DOMAIN UpperCase : UpperCase[k] = cs[i]]
        ELSE cs[i] ]

\* str.isdigit()
IsDigit(cs) == cs # << >> /\ \A i \in DOMAIN cs : cs[i] \in Digits

Separators == { ",", ";", "/", "\n", "*" }

\* re.split(r'[,;/\n•]', companies_text); "*" stands for the bullet.
RECURSIVE Split(_)
Split(cs) ==
    IF \E i \in DOMAIN cs : cs[i] \in Separators
    THEN LET i == CHOOSE k \in DOMAIN cs :
                    /\ cs[k] \in Separators
                    /\ \A j \in 1..(k - 1) : cs[j] \notin Separators
         IN  << SubSeq(cs, 1, i - 1) >> \o Split(SubSeq(cs, i + 1, Len(cs)))
    ELSE << cs >>

noise_phrases ==
    { << "c", "o", "m", "p", "a", "n", "i", "e", "s" >>, << "i", "n", "c", "l", "u", "d", "e" >>, << "e", "t", "c" >>, << "a", "n", "d" >>, << "m", "o", "r", "e" >>, << "o", "t", "h", "e", "r", "s" >> }

MinNameLen == 2

\* "Basic validation"
ValidName(cs) == Len(cs) > MinNameLen /\ ~IsDigit(cs)

company_total_patterns ==
    << [ id |-> "n_companies_visited",    accepts |-> { "n_companies_visited" } ],
       [ id |-> "total_companies",        accepts |-> { "total_companies" } ],
       [ id |-> "visited_by_n_companies", accepts |-> { "visited_by_n_companies" } ] >>

company_section_patterns ==
    << [ id |-> "top_recruiters", accepts |-> { "top_recruiters" } ],
       [ id |-> "top_companies",  accepts |-> { "top_companies" } ],
       [ id |-> "our_recruiters", accepts |-> { "our_recruiters" } ] >>

\* The loop over total_patterns: the first pattern that matches wins.
RECURSIVE TotalCompanies(_, _)
TotalCompanies(text, k) ==
    IF k > Len(company_total_patterns) THEN << >>
    ELSE IF Search(company_total_patterns[k], text) # 0
         THEN << text[Search(company_total_patterns[k], text)].n >>
         ELSE TotalCompanies(text, k + 1)

\* The candidate loop of one section.
RECURSIVE SectionCompanies(_)
SectionCompanies(candidates) ==
    IF candidates = << >> THEN << >>
    ELSE LET candidate == Strip(Head(candidates))
         IN  ( IF ValidName(candidate) /\ Lower(candidate) \notin noise_phrases
               THEN << candidate >>
               ELSE << >> )
             \o SectionCompanies(Tail(candidates))

\* The loop over company_section_patterns: every pattern that matches
\* contributes the names of its leftmost match.
RECURSIVE TextCompanies(_, _)
TextCompanies(text, k) ==
    IF k > Len(company_section_patterns) THEN << >>
    ELSE ( IF Search(company_section_patterns[k], text) # 0
           THEN SectionCompanies(
                    Split(text[Search(company_section_patterns[k], text)].body))
           ELSE << >> )
         \o TextCompanies(text, k + 1)

company_keywords == { "company", "recruiter", "organization", "firm" }

\* The first header naming a company; 0 stands for None.
CompanyCol(headers) ==
    LET S == { i \in DOMAIN headers : HasAny(headers[i], company_keywords) }
    IN  IF S = {} THEN 0 ELSE CHOOSE i \in S : \A j \in S : i <= j

\* The row loop of one table.
RECURSIVE CompanyRows(_, _)
CompanyRows(rows, cc) ==
    IF rows = << >> THEN << >>
    ELSE LET row == Head(rows)
         IN  ( IF /\ Len(row) >= cc
                  /\ row[cc] # << >>
                  /\ ValidName(Strip(row[cc]))
               THEN << Strip(row[cc]) >>
               ELSE << >> )
             \o CompanyRows(Tail(rows), cc)

\* The table loop.
RECURSIVE TableCompanies(_)
TableCompanies(tables) ==
    IF tables = << >> THEN << >>
    ELSE ( IF CompanyCol(Head(tables).headers) # 0
           THEN CompanyRows(Head(tables).raw_rows, CompanyCol(Head(tables).headers))
           ELSE << >> )
         \o TableCompanies(Tail(tables))

\* The list keeps the last occurrence of each name.
RECURSIVE DedupKeepLast(_)
DedupKeepLast(names) ==
    IF names = << >> THEN << >>
    ELSE IF \E i \in DOMAIN Tail(names) : Tail(names)[i] = Head(names)
         THEN DedupKeepLast(Tail(names))
         ELSE << Head(names) >> \o DedupKeepLast(Tail(names))

\* list(dict.fromkeys(names)): the first occurrence of each name, in order.
RECURSIVE Dedup(_)
Dedup(names) ==
    IF names = << >> THEN << >>
    ELSE LET front == Dedup(SubSeq(names, 1, Len(names) - 1))
             last  == names[Len(names)]
         IN  IF \E i \in DOMAIN front : front[i] = last
             THEN front
             ELSE Append(front, last)

\* The names as mined, before deduplication: text sections in pattern
\* order, then tables in order.
MinedCompanies(text, tables) == TextCompanies(text, 1) \o TableCompanies(tables)

extract_recruiters(text, tables) ==
    [ top_companies           |-> Dedup(MinedCompanies(text, tables)),
      total_companies_visited |-> TotalCompanies(text, 1) ]

\* Inputs of the recruiter extractor.
Item(kind, n, body) == [ kind |-> kind, n |-> n, body |-> body ]

RecruiterItems ==
    { Item("top_recruiters", 0, << "T", "C", "S", ",", "I", "B", "M", ",", "T", "C", "S" >>),
      Item("top_recruiters", 0, << "T", "C", "S", ";", " ", "I", "B", "M" >>),
      Item("top_companies", 0, << "H", "P", ",", "2", "0", "2", "3", ",", "E", "t", "c", ",", "I", "B", "M" >>),
      Item("our_recruiters", 0, << " ", "t", "c", "s", " ", "/", "T", "C", "S" >>),
      Item("our_recruiters", 0, << "I", "B", "M" >>),
      Item("top_recruiters_open", 0, << "I", "B", "M" >>),
      Item("n_companies_visited", 120, << >>),
      Item("total_companies", 95, << >>),
      Item("other", 0, << >>) }

CompanyCells ==
    { << "T", "C", "S" >>,
      << "I", "B", "M" >>,
      << " ", "T", "C", "S", " " >>,
      << "H", "P" >>,
      << "2", "0", "2", "3" >>,
      << "O", "t", "h", "e", "r", "s" >>,
      << >> }

RecruiterTableSet ==
    { [ headers |-> h, raw_rows |-> r ] :
        h \in { << "company", "recruiter name" >>, << "year", "company" >>,
                << "year", "avg package" >> },
        r \in { << << a, b >> >> : a, b \in CompanyCells } \cup
              { << << a >>, << b, a >> >> :
                  a, b \in { << "T", "C", "S" >>, << "I", "B", "M" >>, << >> } } }

RecruiterInputs ==
    { [ text |-> t, tables |-> tb ] :
        t  \in { << >> } \cup { << x >> : x \in RecruiterItems }
                         \cup { << x, y >> : x, y \in RecruiterItems },
        tb \in { << >> } \cup { << x >> : x \in RecruiterTableSet } }

InitRecruiters ==
    /\ forceHealthy = FALSE
    /\ endpointConfigured = TRUE
    /\ ctype = "placement"
    /\ IdleRuns
    /\ IdleCrawl
    /\ IdleProcess
    /\ IdleBattery
    /\ IdleExtract
    /\ arg \in RecruiterInputs
    /\ ret = << >>
    /\ fpc = "ready"

CallExtractRecruiters ==
    /\ fpc = "ready"
    /\ ret' = extract_recruiters(arg.text, arg.tables)
    /\ fpc' = "done"
    /\ UNCHANGED arg
    /\ UNCHANGED envVars
    /\ UNCHANGED runVars
    /\ UNCHANGED crawlVars
    /\ UNCHANGED procVars
    /\ UNCHANGED batteryVars
    /\ UNCHANGED extractVars

NextRecruiters == CallExtractRecruiters

SpecRecruiters == InitRecruiters /\ [][NextRecruiters]_vars

(***************************************************************************)
(* Properties of the recruiter extractor (SpecRecruiters).                 *)
(***************************************************************************)
FirstIndex(names, x) ==
    CHOOSE i \in DOMAIN names :
        names[i] = x /\ \A j \in 1..(i - 1) : names[j] # x

\* C13: top_companies contains no duplicate name, contains every accepted
\* name mined from the text or the tables and nothing else, and orders the
\* names by their first occurrence in the mined list (names mined from the
\* text before names mined from the tables).
C13_RecruiterDedup ==
    fpc = "done"
    => LET out   == ret.top_companies
           mined == MinedCompanies(arg.text, arg.tables)
       IN  /\ \A i, j \in DOMAIN out : out[i] = out[j] => i = j
           /\ Range(out) = Range(mined)
           /\ \A i, j \in DOMAIN out :
                 i < j => FirstIndex(mined, out[i]) < FirstIndex(mined, out[j])

\* TCS, IBM, TCS in the text and TCS again in a table give TCS, IBM.
C13_Witness ==
    /\ fpc = "done"
    /\ arg.text = << Item("top_recruiters", 0,
                          << "T", "C", "S", ",", "I", "B", "M", ",", "T", "C", "S" >>) >>
    /\ arg.tables # << >>
    /\ TableCompanies(arg.tables) = << << "T", "C", "S" >> >>
    /\ ret.top_companies = << << "T", "C", "S" >>, << "I", "B", "M" >> >>

(***************************************************************************)
(* AdmissionExtractor._extract_application_deadlines,                      *)
(* BaseExtractor.extract_dates and BaseExtractor._get_context              *)
(*                                                                         *)
(* A text is a sequence of segments laid end to end; a segment has a       *)
(* length in characters and is a date (with the date patterns that match   *)
(* it), one of the deadline keywords, a word, or filler.  No keyword or    *)
(* term spans two segments.  A position is a number of characters from     *)
(* the start of the text.                                                  *)
(***************************************************************************)
MaxSegments == 3

context_size == 100

dates_deadlines ==
    { "application deadline", "last date", "admission date", "important dates",
      "admission schedule", "last date to apply", "registration deadline" }

Seg(kind, s, len, pats) == [ kind |-> kind, s |-> s, len |-> len, pats |-> pats ]

\* The date patterns of extract_dates, by position in date_patterns.
DatePatterns == 1..5

RECURSIVE Offset(_, _)
Offset(text, i) == IF i <= 1 THEN 0 ELSE Offset(text, i - 1) + text[i - 1].len

TextLen(text) == Offset(text, Len(text) + 1)

Min(a, b) == IF a <= b THEN a ELSE b

\* _get_context(text, position, 100): text[start:end] with the ellipses.
get_context(text, position) ==
    LET start == Max(0, position - context_size)
        end   == Min(TextLen(text), position + context_size)
    IN  [ kind   |-> "window",
          start  |-> start,
          end    |-> end,
          prefix |-> start > 0,
          suffix |-> end < TextLen(text),
          row    |-> << >> ]

\* Segment i lies wholly inside the window of a context.
Inside(text, context, i) ==
    /\ Offset(text, i) >= context.start
    /\ Offset(text, i) + text[i].len <= context.end

\* The matches of one pattern, in text order.
RECURSIVE PatternDates(_, _, _)
PatternDates(text, k, i) ==
    IF i > Len(text) THEN << >>
    ELSE ( IF text[i].kind = "date" /\ k \in text[i].pats
           THEN << [ date_str |-> text[i].s,
                     position |-> Offset(text, i),
                     context  |-> get_context(text, Offset(text, i)) ] >>
           ELSE << >> )
         \o PatternDates(text, k, i + 1)

\* extract_dates: the matches of each pattern in turn.
RECURSIVE extract_dates(_, _)
extract_dates(text, k) ==
    IF k \notin DatePatterns THEN << >>
    ELSE PatternDates(text, k, 1) \o extract_dates(text, k + 1)

\* The event types in the order _determine_deadline_type tests them.
EventTypes ==
    << "application", "entrance_exam", "result_declaration",
       "interview_counselling", "fee_payment", "class_commencement" >>

\* The event types one of whose terms occurs in a (lowercased) string.
TypesIn(s) ==
    CASE s = "application deadline"  -> { "application" }
      [] s = "last date to apply"    -> { "application" }
      [] s = "registration deadline" -> { "application" }
      [] s = "entrance exam"         -> { "entrance_exam" }
      [] s = "exam"                  -> { "entrance_exam" }
      [] s = "fee payment"           -> { "fee_payment" }
      [] s = "result"                -> { "result_declaration" }
      [] s = "exam form"             -> { "application", "entrance_exam" }
      [] OTHER                       -> {}

\* _determine_deadline_type on a set of occurring types: first group wins.
RECURSIVE FirstType(_, _)
FirstType(types, k) ==
    IF k > Len(EventTypes) THEN "other"
    ELSE IF EventTypes[k] \in types THEN EventTypes[k]
    ELSE FirstType(types, k + 1)

\* The strings of a context of the text.
ContextStrings(text, context) ==
    { text[i].s : i \in { j \in DOMAIN text : Inside(text, context, j) } }

\* Every date of the text is taken for a deadline.
KeepEveryDate(text, context) == TRUE

\* is_deadline
HasDeadlineKeyword(text, context) ==
    \E i \in DOMAIN text :
        /\ Inside(text, context, i)
        /\ text[i].kind = "keyword"
        /\ text[i].s \in dates_deadlines

\* The loop over the dates of the text.
RECURSIVE TextDeadlines(_, _)
TextDeadlines(text, dates) ==
    IF dates = << >> THEN << >>
    ELSE ( IF HasDeadlineKeyword(text, Head(dates).context)
           THEN << [ date_str   |-> Head(dates).date_str,
                     context    |-> Head(dates).context,
                     event_type |->
                         FirstType(UNION { TypesIn(x) :
                                             x \in ContextStrings(text, Head(dates).context) },
                                   1) ] >>
           ELSE << >> )
         \o TextDeadlines(text, Tail(dates))

event_headers == { "event", "activity", "particular", "detail" }

DateCol(headers) == LastOf({ i \in DOMAIN headers : "date" \in KeywordsIn(headers[i]) })

EventCol(headers) == LastOf({ i \in DOMAIN headers : HasAny(headers[i], event_headers) })

RowContext(row) ==
    [ kind |-> "row", start |-> 0, end |-> 0, prefix |-> FALSE, suffix |-> FALSE,
      row |-> row ]

\* The row loop of one table.
RECURSIVE DeadlineRows(_, _, _)
DeadlineRows(rows, dc, ec) ==
    IF rows = << >> THEN << >>
    ELSE LET row == Head(rows)
         IN  ( IF Len(row) >= dc
               THEN << [ date_str   |-> row[dc],
                         context    |-> RowContext(row),
                         event_type |-> IF ec # 0 /\ Len(row) >= ec
                                        THEN FirstType(TypesIn(row[ec]), 1)
                                        ELSE "application" ] >>
               ELSE << >> )
             \o DeadlineRows(Tail(rows), dc, ec)

\* The table loop.
RECURSIVE TableDeadlines(_)
TableDeadlines(tables) ==
    IF tables = << >> THEN << >>
    ELSE LET h == Head(tables).headers
         IN  ( IF /\ \/ \E i \in DOMAIN h : "date" \in KeywordsIn(h[i])
                     \/ \E i \in DOMAIN h : HasAny(h[i], dates_deadlines)
                  /\ DateCol(h) # 0
               THEN DeadlineRows(Head(tables).raw_rows, DateCol(h), EventCol(h))
               ELSE << >> )
             \o TableDeadlines(Tail(tables))

extract_application_deadlines(text, tables) ==
    TextDeadlines(text, extract_dates(text, 1)) \o TableDeadlines(tables)

\* Inputs of the deadline extractor.
DeadlineSegments ==
    { Seg("date", "12/05/2024", 10, { 1 }),
      Seg("date", "May 5, 2024", 11, { 2, 5 }),
      Seg("keyword", "last date", 9, {}),
      Seg("keyword", "application deadline", 20, {}),
      Seg("word", "exam", 4, {}),
      Seg("filler", " ", 1, {}),
      Seg("filler", "...", 85, {}),
      Seg("filler", "....", 95, {}) }

DeadlineTableSet ==
    { [ headers |-> h, raw_rows |-> r ] :
        h \in { << "event", "last date" >>, << "date", "particulars" >>,
                << "schedule", "important dates" >>, << "year", "avg package" >> },
        r \in { << << "entrance exam", "12/05/2024" >> >>,
                << << "12/05/2024", "fee payment" >>, << "result" >> >> } }

DeadlineInputs ==
    { [ text |-> t, tables |-> tb ] :
        t  \in SeqUpTo(DeadlineSegments, MaxSegments),
        tb \in { << >> } \cup { << x >> : x \in DeadlineTableSet } }

InitDeadlines ==
    /\ forceHealthy = FALSE
    /\ endpointConfigured = TRUE
    /\ ctype = "admission"
    /\ IdleRuns
    /\ IdleCrawl
    /\ IdleProcess
    /\ IdleBattery
    /\ IdleExtract
    /\ arg \in DeadlineInputs
    /\ ret = << >>
    /\ fpc = "ready"

CallExtractDeadlines ==
    /\ fpc = "ready"
    /\ ret' = [ application_deadlines |->
                  extract_application_deadlines(arg.text, arg.tables) ]
    /\ fpc' = "done"
    /\ UNCHANGED arg
    /\ UNCHANGED envVars
    /\ UNCHANGED runVars
    /\ UNCHANGED crawlVars
    /\ UNCHANGED procVars
    /\ UNCHANGED batteryVars
    /\ UNCHANGED extractVars

NextDeadlines == CallExtractDeadlines

SpecDeadlines == InitDeadlines /\ [][NextDeadlines]_vars

(***************************************************************************)
(* Properties of the deadline extractor (SpecDeadlines).                   *)
(***************************************************************************)

\* A deadline keyword lies wholly within 100 characters before the start of
\* date mention i or within the 100 characters from its start.
KeywordNear(text, i) ==
    \E j \in DOMAIN text :
        /\ text[j].kind = "keyword"
        /\ Offset(text, j) >= Offset(text, i) - context_size
        /\ Offset(text, j) + text[j].len <= Offset(text, i) + context_size

\* The entries of application_deadlines that come from the text.
TextEntries ==
    { i \in DOMAIN ret.application_deadlines :
        ret.application_deadlines[i].context.kind = "window" }

\* C14: for every date mention of the text whose 100-character context
\* holds no deadline keyword, application_deadlines has no entry for that
\* mention; every entry that comes from the text has a context that holds
\* a deadline keyword.
C14_DeadlinesNeedKeyword ==
    fpc = "done"
    => /\ \A i \in DOMAIN arg.text :
             ( arg.text[i].kind = "date" /\ ~KeywordNear(arg.text, i) )
             => \A e \in TextEntries :
                   ret.application_deadlines[e].context
                       # get_context(arg.text, Offset(arg.text, i))
       /\ \A e \in TextEntries :
             \E j \in DOMAIN arg.text :
                /\ arg.text[j].kind = "keyword"
                /\ Offset(arg.text, j) >= ret.application_deadlines[e].context.start
                /\ Offset(arg.text, j) + arg.text[j].len
                     <= ret.application_deadlines[e].context.end

\* "last date", 95 characters of filler, then a date: the window of the
\* date starts inside the keyword, and the date is not kept.
C14_Witness ==
    /\ fpc = "done"
    /\ arg.tables = << >>
    /\ Len(arg.text) = 3
    /\ arg.text[1].s = "last date"
    /\ arg.text[2].len = 95
    /\ arg.text[3].kind = "date"
    /\ get_context(arg.text, Offset(arg.text, 3)).start = 4
    /\ ret.application_deadlines = << >>

(***************************************************************************)
(* AdmissionExtractor._extract_hostel_info                                 *)
(*                                                                         *)
(* A phrase of the text records the phrasing it has (`kind`), the text of  *)
(* group 1 where the phrasing has one (`value`) and the number it carries, *)
(* in tenths (`v`).                                                        *)
(***************************************************************************)
HostelPattern(id, accepts) == [ id |-> id, accepts |-> accepts ]

boys_patterns ==
    << HostelPattern("boys1", { "boys_hostel_is" }),
       HostelPattern("boys2", { "hostel_facilities_for_boys" }),
       HostelPattern("boys3", { "separate_hostel_for_boys" }) >>

girls_patterns ==
    << HostelPattern("girls1", { "girls_hostel_is" }),
       HostelPattern("girls2", { "hostel_facilities_for_girls" }),
       HostelPattern("girls3", { "separate_hostel_for_girls" }) >>

\* r"boys\s+hostel" and r"girls\s+hostel": the phrasings that hold the
\* bare words.
boys_mention == HostelPattern("boys", { "boys_hostel_is", "boys_hostel" })

girls_mention == HostelPattern("girls", { "girls_hostel_is", "girls_hostel" })

fee_patterns ==
    << HostelPattern("fee1", { "hostel_fee" }),
       HostelPattern("fee2", { "hostel_charges" }) >>

Affirmative == { "available", "separate", "dedicated" }

\* The loop over the patterns of one hostel: the first pattern that matches
\* decides, << >> stands for None.
RECURSIVE HostelFromPatterns(_, _, _)
HostelFromPatterns(pats, k, text) ==
    IF k > Len(pats) THEN << >>
    ELSE IF Search(pats[k], text) # 0
         THEN << text[Search(pats[k], text)].value \in Affirmative >>
         ELSE HostelFromPatterns(pats, k + 1, text)

\* A bare mention sets the value whatever the patterns found.
MentionAlways(found, mention, text) ==
    IF Search(mention, text) # 0 THEN << TRUE >> ELSE found

\* "If not found in patterns, look for simple mentions".
Mention(found, mention, text) ==
    IF found = << >> /\ Search(mention, text) # 0 THEN << TRUE >> ELSE found

\* The loop over fee_patterns.
RECURSIVE HostelFee(_, _)
HostelFee(text, k) ==
    IF k > Len(fee_patterns) THEN << >>
    ELSE IF Search(fee_patterns[k], text) # 0
         THEN << Float(text[Search(fee_patterns[k], text)].v) >>
         ELSE HostelFee(text, k + 1)

extract_hostel_info(text, tables) ==
    [ boys_hostel  |-> Mention(HostelFromPatterns(boys_patterns, 1, text),
                               boys_mention, text),
      girls_hostel |-> Mention(HostelFromPatterns(girls_patterns, 1, text),
                               girls_mention, text),
      hostel_fee   |-> HostelFee(text, 1) ]

\* Inputs of the hostel extractor.
HostelPhrase(kind, value, v) == [ kind |-> kind, value |-> value, v |-> v ]

HostelPhrases ==
    { HostelPhrase(k, x, 0) :
        k \in { "boys_hostel_is", "hostel_facilities_for_boys",
                "girls_hostel_is" },
        x \in { "available", "not available" } } \cup
    { HostelPhrase("separate_hostel_for_boys", "separate", 0),
      HostelPhrase("separate_hostel_for_girls", "dedicated", 0),
      HostelPhrase("boys_hostel", "", 0),
      HostelPhrase("girls_hostel", "", 0),
      HostelPhrase("hostel_fee", "", 450000),
      HostelPhrase("hostel_charges", "", 600005),
      HostelPhrase("other", "", 0) }

HostelInputs ==
    { [ text |-> t, tables |-> << >> ] : t \in SeqUpTo(HostelPhrases, MaxPhrases) }

InitHostel ==
    /\ forceHealthy = FALSE
    /\ endpointConfigured = TRUE
    /\ ctype = "admission"
    /\ IdleRuns
    /\ IdleCrawl
    /\ IdleProcess
    /\ IdleBattery
    /\ IdleExtract
    /\ arg \in HostelInputs
    /\ ret = << >>
    /\ fpc = "ready"

CallExtractHostel ==
    /\ fpc = "ready"
    /\ ret' = extract_hostel_info(arg.text, arg.tables)
    /\ fpc' = "done"
    /\ UNCHANGED arg
    /\ UNCHANGED envVars
    /\ UNCHANGED runVars
    /\ UNCHANGED crawlVars
    /\ UNCHANGED procVars
    /\ UNCHANGED batteryVars
    /\ UNCHANGED extractVars

NextHostel == CallExtractHostel

SpecHostel == InitHostel /\ [][NextHostel]_vars

(***************************************************************************)
(* Properties of the hostel extractor (SpecHostel).                        *)
(***************************************************************************)
BoysPhrasings ==
    { "boys_hostel_is", "hostel_facilities_for_boys", "separate_hostel_for_boys" }

\* The values the boys-hostel phrasings of a text carry.
BoysValues(text) ==
    { text[i].value : i \in { j \in DOMAIN text : text[j].kind \in BoysPhrasings } }

\* C15: a text matching a boys-hostel phrasing pattern with value
\* "available" (and none with "not available") gives boys_hostel = true; a
\* text matching one with "not available" (and none with an affirmative
\* value) gives boys_hostel = false, bare mentions of "boys hostel"
\* notwithstanding.
C15_BoysHostelValue ==
    fpc = "done"
    => /\ ( "available" \in BoysValues(arg.text)
            /\ "not available" \notin BoysValues(arg.text) )
          => ret.boys_hostel = << TRUE >>
       /\ ( "not available" \in BoysValues(arg.text)
            /\ BoysValues(arg.text) \cap Affirmative = {} )
          => ret.boys_hostel = << FALSE >>

\* "hostel facilities for boys is not available" next to a bare mention of
\* "boys hostel": the result is false.
C15_Witness ==
    /\ fpc = "done"
    /\ \E i \in DOMAIN arg.text : arg.text[i].kind = "boys_hostel"
    /\ \E i \in DOMAIN arg.text :
          arg.text[i] = HostelPhrase("hostel_facilities_for_boys", "not available", 0)
    /\ ret.boys_hostel = << FALSE >>

(***************************************************************************)
(* Repeated runs of extract_admission_data / extract_placement_data on one *)
(* extractor instance built without an AI adapter.                         *)
(***************************************************************************)
MaxRuns == 3

\* A run appends what it has seen to the instance's keyword lists.
KeywordsGrow(kw) == [ k \in DOMAIN kw |-> Append(kw[k], "seen") ]

\* The keyword dictionary after a run: the extractors only read it.
KeywordsAfterRun(kw) == kw

\* One more call on the same instance with the same content; the two
\* datetime.now() calls of the dict literal read a clock that may advance.
RunExtract ==
    /\ adapter = "none"
    /\ Len(runs) < MaxRuns
    /\ \E d1, d2 \in 0..1 :
          /\ runs' = Append(runs,
                            [ rec |-> ExtractData(ctype, content, adapter, oracle,
                                                  endpointConfigured),
                              last_updated    |-> clock + d1,
                              processing_date |-> clock + d1 + d2 ])
          /\ clock' = clock + d1 + d2
    /\ record' = ExtractData(ctype, content, adapter, oracle, endpointConfigured)
    /\ xpc' = "done"
    /\ keywords' = KeywordsAfterRun(keywords)
    /\ UNCHANGED <<adapter, content, oracle>>
    /\ UNCHANGED envVars
    /\ UNCHANGED batteryVars
    /\ UNCHANGED fieldVars
    /\ UNCHANGED crawlVars
    /\ UNCHANGED procVars

InitRuns ==
    /\ forceHealthy = FALSE
    /\ endpointConfigured \in BOOLEAN
    /\ ctype \in ContentTypes
    /\ IdleRuns
    /\ IdleCrawl
    /\ IdleProcess
    /\ IdleBattery
    /\ IdleField
    /\ adapter = "none"
    /\ content \in Contents(ctype)
    /\ oracle = [ f \in AllFields |-> "ok_empty" ]
    /\ xpc = "ready"
    /\ record = NoRecord

NextRuns == RunExtract

SpecRuns == InitRuns /\ [][NextRuns]_vars

HtmlCell(tag, text) == [ tag |-> tag, text |-> text ]

\* get_text(strip=True)
GetText(cell) ==
    CASE cell.text = " Year " -> "Year"
      [] OTHER                -> cell.text

Texts(cells) == [ i \in DOMAIN cells |-> GetText(cells[i]) ]

\* find_all('th') under a sequence of rows.
RECURSIVE ThCells(_)
ThCells(trs) ==
    IF trs = << >> THEN << >>
    ELSE SelectSeq(Head(trs), LAMBDA c : c.tag = "th") \o ThCells(Tail(trs))

\* table.find_all('tr')
AllRows(table) == table.thead \o table.body

\* "Extract headers": the th of the thead, else the th of the first tr,
\* else its td.
TableHeaders(table) ==
    IF table.hasThead /\ ThCells(table.thead) # << >>
    THEN Texts(ThCells(table.thead))
    ELSE IF AllRows(table) = << >> THEN << >>
    ELSE IF ThCells(<< Head(AllRows(table)) >>) # << >>
         THEN Texts(ThCells(<< Head(AllRows(table)) >>))
         ELSE Texts(Head(AllRows(table)))

\* "Process rows": the rows with cells, the first tr left out when there
\* are headers.
RECURSIVE RowTexts(_)
RowTexts(trs) ==
    IF trs = << >> THEN << >>
    ELSE ( IF Head(trs) # << >> THEN << Texts(Head(trs)) >> ELSE << >> )
         \o RowTexts(Tail(trs))

TableRows(table) ==
    IF TableHeaders(table) # << >>
    THEN RowTexts(Tail(AllRows(table)))
    ELSE RowTexts(AllRows(table))

\* The key of cell i of a row.
ColumnKey(headers, i) ==
    IF i <= Len(headers) THEN headers[i] ELSE "column_" \o ToString(i)

\* row_dict after the first n cells: a dict keeps its keys in insertion
\* order, and a key set again keeps its place and takes the new value.
RECURSIVE RowDict(_, _, _)
RowDict(headers, row, n) ==
    IF n = 0 THEN [ keys |-> << >>, val |-> [ k \in {} |-> "" ] ]
    ELSE LET d == RowDict(headers, row, n - 1)
             k == ColumnKey(headers, n)
         IN  [ keys |-> IF \E i \in DOMAIN d.keys : d.keys[i] = k
                        THEN d.keys
                        ELSE Append(d.keys, k),
               val  |-> Put(d.val, k, row[n]) ]

\* "Create structured table data" for one table: << >> when it is dropped.
StructuredTable(table) ==
    LET headers == TableHeaders(table)
        rows    == TableRows(table)
    IN  IF headers # << >> /\ rows # << >>
        THEN << [ headers  |-> headers,
                  rows     |-> [ i \in DOMAIN rows |->
                                   RowDict(headers, rows[i], Len(rows[i])) ],
                  raw_rows |-> rows ] >>
        ELSE IF rows # << >>
        THEN << [ headers |-> << >>, rows |-> << >>, raw_rows |-> rows ] >>
        ELSE << >>

RECURSIVE extract_tables(_)
extract_tables(html) ==
    IF html = << >> THEN << >>
    ELSE StructuredTable(Head(html)) \o extract_tables(Tail(html))

\* Inputs of extract_tables.
HeaderRowSet ==
    { << HtmlCell("th", "Year"), HtmlCell("th", "Pkg") >>,
      << HtmlCell("th", "Year"), HtmlCell("th", "Year") >>,
      << HtmlCell("th", "Year"), HtmlCell("th", " Year ") >>,
      << HtmlCell("td", "Year"), HtmlCell("td", "Pkg") >>,
      << HtmlCell("td", ""), HtmlCell("th", "Year"), HtmlCell("th", "Pkg") >> }

DataRowSet ==
    { << HtmlCell("td", "1"), HtmlCell("td", "2") >>,
      << HtmlCell("td", "1") >>,
      << HtmlCell("td", "1"), HtmlCell("td", "2"), HtmlCell("td", "3") >>,
      << HtmlCell("th", "1"), HtmlCell("td", "2") >>,
      << >> }

HtmlTables ==
    { [ hasThead |-> FALSE, thead |-> << >>, body |-> b ] :
        b \in SeqUpTo(HeaderRowSet \cup DataRowSet, MaxRows + 1) } \cup
    { [ hasThead |-> TRUE, thead |-> h, body |-> b ] :
        h \in { << >> } \cup { << x >> : x \in HeaderRowSet }
                        \cup { << x, x >> : x \in HeaderRowSet },
        b \in SeqUpTo(DataRowSet, MaxRows) }

InitTables ==
    /\ forceHealthy = FALSE
    /\ endpointConfigured = TRUE
    /\ ctype = "admission"
    /\ IdleRuns
    /\ IdleCrawl
    /\ IdleProcess
    /\ IdleBattery
    /\ IdleExtract
    /\ arg \in { << t >> : t \in HtmlTables }
    /\ ret = << >>
    /\ fpc = "ready"

CallExtractTables ==
    /\ fpc = "ready"
    /\ ret' = extract_tables(arg)
    /\ fpc' = "done"
    /\ UNCHANGED arg
    /\ UNCHANGED envVars
    /\ UNCHANGED runVars
    /\ UNCHANGED crawlVars
    /\ UNCHANGED procVars
    /\ UNCHANGED batteryVars
    /\ UNCHANGED extractVars

NextTables == CallExtractTables

SpecTables == InitTables /\ [][NextTables]_vars

(***************************************************************************)
(* Properties of extract_tables (SpecTables).                              *)
(***************************************************************************)

\* C17: for every emitted table with N headers and every data row of
\* exactly N cells, the dictionary of the row has exactly N keys, the N
\* headers in order, also when two header cells carry the same text.
C17_RowKeysAreHeaders ==
    fpc = "done"
    => \A t \in DOMAIN ret :
          \A i \in DOMAIN ret[t].rows :
             Len(ret[t].raw_rows[i]) = Len(ret[t].headers)
             => ret[t].rows[i].keys = ret[t].headers

\* The rows after the first tr that contain cells.
DataRowCount(table) ==
    Len(SelectSeq(Tail(AllRows(table)), LAMBDA r : r # << >>))

\* C18: a table whose first tr is a header row with cells, followed by
\* k >= 1 rows that contain cells, is emitted as one table whose headers
\* are the header row and whose rows and raw_rows both have k entries; with
\* k = 0 the table is dropped.
C18_HeaderRowThenDataRows ==
    fpc = "done" /\ AllRows(arg[1]) # << >> /\ Head(AllRows(arg[1])) # << >>
    => IF DataRowCount(arg[1]) >= 1
       THEN /\ Len(ret) = 1
            /\ ret[1].headers = Texts(Head(AllRows(arg[1])))
            /\ Len(ret[1].rows) = DataRowCount(arg[1])
            /\ Len(ret[1].raw_rows) = DataRowCount(arg[1])
       ELSE ret = << >>

(***************************************************************************)
(* The crawl of one college.                                               *)
(*                                                                         *)
(* A host name is the sequence of its pieces, "www.college.edu" being      *)
(* <<"www", ".", "college", ".", "edu">>, so that `domain in netloc` is    *)
(* computed as the substring test it is.  A URL is its scheme, host, the   *)
(* name of its path and, for the numbered pages of the site, a number.     *)
(***************************************************************************)
MAX_PAGES_PER_COLLEGE == 50
MAX_DEPTH == 3
DOMAIN_RESTRICT == TRUE

Url(scheme, netloc, name, n) ==
    [ scheme |-> scheme, netloc |-> netloc, name |-> name, n |-> n ]

CollegeDomain == << "college", ".", "edu" >>
CollegeHost   == << "www", ".", "college", ".", "edu" >>
MailHost      == << "mail", ".", "college", ".", "edu" >>
MirrorHost    == << "college", ".", "edu", ".", "mirror", ".", "com" >>
LookalikeHost == << "my", "college", ".", "edu" >>
OtherHost     == << "other", ".", "org" >>

\* An href of a page: an absolute URL, a path relative to the page, or one
\* of the forms _extract_links skips.
Href(kind, url) == [ kind |-> kind, url |-> url ]

Relative(name, n) == Href("relative", Url("", << >>, name, n))

\* urljoin(base_url, href)
urljoin(base, href) ==
    IF href.kind = "relative"
    THEN Url(base.scheme, base.netloc, href.url.name, href.url.n)
    ELSE href.url

\* classify_content failed, or answered with a class and a confidence in
\* hundredths.
NoAnswer == [ ok |-> FALSE, class |-> "general", confidence |-> 0 ]
Answer(class, confidence) ==
    [ ok |-> TRUE, class |-> class, confidence |-> confidence ]

\* The content of a page: its hrefs, the classifier's answer on it, and
\* the counts of indicators and keywords found in its text.
PageContent(links, ai, ac, pc, akc, pkc) ==
    [ links |-> links, classification |-> ai,
      admission_count |-> ac, placement_count |-> pc,
      admission_keyword_count |-> akc, placement_keyword_count |-> pkc ]

\* The web the crawler walks: numbered page n of a site links to page
\* n + 1, without end.
Content(url) ==
    CASE url.netloc = CollegeHost /\ url.name = "" ->
           PageContent(<< Relative("page", 1),
                          Href("absolute", Url("https", MailHost, "", 0)),
                          Href("absolute", Url("https", MirrorHost, "", 0)),
                          Href("absolute", Url("https", OtherHost, "", 0)),
                          Relative("brochure.pdf", 0),
                          Href("absolute", Url("ftp", CollegeHost, "files", 0)),
                          Href("javascript", Url("", << >>, "", 0)),
                          Href("fragment", Url("", << >>, "", 0)),
                          Href("mailto", Url("mailto", << >>, "", 0)),
                          Relative("admissions", 0) >>,
                       NoAnswer, 0, 0, 0, 0)
      [] url.name = "page" ->
           PageContent(<< Relative("page", url.n + 1), Relative("", 0) >>,
                       Answer("placement", 50), 1, 0, 2, 3)
      [] url.name = "admissions" ->
           PageContent(<< Relative("page", 1), Relative("careers", 0) >>,
                       Answer("admission", 90), 2, 0, 4, 1)
      [] url.name = "careers" ->
           PageContent(<< Href("absolute", Url("https", LookalikeHost, "", 0)) >>,
                       NoAnswer, 0, 1, 0, 2)
      [] url.netloc = MirrorHost /\ url.name = "" ->
           PageContent(<< Relative("careers", 0),
                          Href("absolute", Url("https", OtherHost, "", 0)) >>,
                       Answer("general", 70), 0, 0, 0, 0)
      [] OTHER ->
           PageContent(<< >>, NoAnswer, 0, 0, 0, 0)

\* _determine_page_type: the classifier's answer above confidence 0.6,
\* else the counts.
determine_page_type(page) ==
    IF page.classification.ok /\ page.classification.confidence > 60
    THEN page.classification.class
    ELSE IF \/ page.admission_count > page.placement_count
            \/ page.admission_keyword_count > page.placement_keyword_count
    THEN "admission"
    ELSE IF \/ page.placement_count > page.admission_count
            \/ page.placement_keyword_count > page.admission_keyword_count
    THEN "placement"
    ELSE "general"

\* _extract_links
extract_links(page, base_url) ==
    LET kept == SelectSeq(page.links,
                          LAMBDA h : /\ h.kind # "javascript"
                                     /\ h.kind # "fragment"
                                     /\ urljoin(base_url, h).scheme # "mailto")
    IN  [ i \in DOMAIN kept |-> urljoin(base_url, kept[i]) ]

\* `domain in parsed.netloc`
IsSubstring(d, s) ==
    \E i \in 0..(Len(s) - Len(d)) : SubSeq(s, i + 1, i + Len(d)) = d

\* parsed.path.lower().endswith(ext) for one of skip_extensions
SkippedExtension(name) ==
    CASE name = "brochure.pdf" -> TRUE
      [] OTHER                 -> FALSE

\* re.search over CUSTOM_URL_PATTERNS['admission_patterns'] and
\* ['placement_patterns']
AdmissionPath(name) ==
    CASE name = "admissions" -> TRUE
      [] OTHER                -> FALSE

PlacementPath(name) ==
    CASE name = "careers" -> TRUE
      [] OTHER             -> FALSE

LinkType(url, current_page_type) ==
    IF PlacementPath(url.name) THEN "placement"
    ELSE IF AdmissionPath(url.name) THEN "admission"
    ELSE current_page_type

\* The external-link test as a comparison of hosts.
SameSite(domain, netloc) ==
    \/ netloc = domain
    \/ /\ Len(netloc) > Len(domain)
       /\ SubSeq(netloc, Len(netloc) - Len(domain), Len(netloc))
            = << "." >> \o domain

\* "Skip external links if domain restriction is enabled"
InDomain(domain, netloc) == IsSubstring(domain, netloc)

\* _filter_links
filter_links(links, domain, current_page_type) ==
    LET kept == SelectSeq(links,
                   LAMBDA u : /\ ~ (DOMAIN_RESTRICT /\ ~ InDomain(domain, u.netloc))
                              /\ u.scheme \in { "http", "https" }
                              /\ ~ SkippedExtension(u.name))
    IN  [ i \in DOMAIN kept |->
            [ url |-> kept[i], type |-> LinkType(kept[i], current_page_type) ] ]

\* The state of the crawler that process_url reads and writes.
Crawler(v, q, s, f) ==
    [ visited_urls |-> v, queued_urls |-> q, stored |-> s, fetched |-> f ]

\* The page cap is tested one page late.
PastPageLimit(v) == Cardinality(v) > MAX_PAGES_PER_COLLEGE

\* len(self.visited_urls) >= MAX_PAGES_PER_COLLEGE
AtPageLimit(v) == Cardinality(v) >= MAX_PAGES_PER_COLLEGE

\* No URL counts as visited.
NeverVisited(url, v) == FALSE

\* url in self.visited_urls
AlreadyVisited(url, v) == url \in v

\* One more fetch of url: navigate or _fetch_with_requests is called.
Fetch(f, url) ==
    [ u \in DOMAIN f \cup { url } |->
        IF u = url THEN ( IF u \in DOMAIN f THEN f[u] + 1 ELSE 1 ) ELSE f[u] ]

\* "Queue filtered links"
RECURSIVE QueueLinks(_, _, _)
QueueLinks(links, v, q) ==
    IF links = << >> THEN q
    ELSE QueueLinks(Tail(links), v,
                    IF Head(links).url \notin v /\ Head(links).url \notin q
                    THEN q \cup { Head(links).url }
                    ELSE q)

\* process_url(url, college_name, domain, page_type, depth) on crawler c;
\* page_type << >> is None, ok is the outcome of the fetch.
process_url(c, url, domain, page_type, depth, ok) ==
    IF AlreadyVisited(url, c.visited_urls) \/ AtPageLimit(c.visited_urls)
    THEN c
    ELSE LET v  == c.visited_urls \cup { url }
             pt == IF page_type = << >>
                   THEN determine_page_type(Content(url))
                   ELSE page_type[1]
         IN  IF ~ ok
             THEN Crawler(v, c.queued_urls, c.stored, Fetch(c.fetched, url))
             ELSE Crawler(v,
                          IF depth < MAX_DEPTH
                          THEN QueueLinks(
                                 filter_links(extract_links(Content(url), url),
                                              domain, pt),
                                 v, c.queued_urls)
                          ELSE c.queued_urls,
                          c.stored \cup { [ url |-> url, page_type |-> pt,
                                            depth |-> depth ] },
                          Fetch(c.fetched, url))

\* The colleges: one of TARGET_COLLEGES, and the one the runner builds for
\* --url.
BaseUrl == Url("https", CollegeHost, "", 0)

TargetCollege ==
    [ base_url |-> BaseUrl, domain |-> << CollegeDomain >>,
      admission_paths |-> << "admissions" >>,
      placement_paths |-> << "careers" >> ]

UrlCollege ==
    [ base_url |-> BaseUrl, domain |-> << CollegeHost >>,
      admission_paths |-> << >>, placement_paths |-> << >> ]

\* college.get('domain') or urlparse(base_url).netloc
DomainOf(college) ==
    IF college.domain # << >> THEN college.domain[1]
    ELSE college.base_url.netloc

\* --max-pages: absent, or a number.
MaxPagesOptions == { << >>, << 2 >> }

ConfiguredPaths(college) ==
    [ i \in DOMAIN college.admission_paths |->
        [ path |-> college.admission_paths[i], type |-> "admission" ] ]
    \o [ i \in DOMAIN college.placement_paths |->
        [ path |-> college.placement_paths[i], type |-> "placement" ] ]

InitCrawl ==
    /\ forceHealthy = FALSE
    /\ endpointConfigured = TRUE
    /\ ctype = "admission"
    /\ IdleRuns
    /\ IdleBattery
    /\ IdleExtract
    /\ IdleField
    /\ options \in [ max_pages : MaxPagesOptions,
                     college : { TargetCollege, UrlCollege } ]
    /\ max_pages = << >>
    /\ visited_urls = {}
    /\ queued_urls = {}
    /\ paths = << >>
    /\ stored = {}
    /\ fetched = << >>
    /\ cpc = "idle"
    /\ IdleProcess

\* The crawler's own variables after a step of crawl_college.
CrawlerBecomes(c) ==
    /\ visited_urls' = c.visited_urls
    /\ queued_urls' = c.queued_urls
    /\ stored' = c.stored
    /\ fetched' = c.fetched

OtherUnchanged ==
    /\ UNCHANGED envVars
    /\ UNCHANGED runVars
    /\ UNCHANGED batteryVars
    /\ UNCHANGED extractVars
    /\ UNCHANGED fieldVars
    /\ UNCHANGED procVars

\* The runner's crawl_college up to the first fetch of the crawler's
\* crawl_college: the crawler is built, max_pages is set on it, the sets
\* are reset and the base URL is processed.
StartCrawl(ok) ==
    /\ cpc = "idle"
    /\ max_pages' = options.max_pages
    /\ CrawlerBecomes(process_url(Crawler({}, {}, stored, << >>),
                                  options.college.base_url,
                                  DomainOf(options.college),
                                  << "general" >>, 0, ok))
    /\ paths' = ConfiguredPaths(options.college)
    /\ cpc' = "paths"
    /\ UNCHANGED options
    /\ OtherUnchanged

\* One turn of the loops over admission_paths and placement_paths.
ProcessPath(ok) ==
    /\ cpc = "paths"
    /\ paths # << >>
    /\ LET url == urljoin(options.college.base_url,
                          Relative(Head(paths).path, 0))
       IN  IF url \notin queued_urls
           THEN CrawlerBecomes(
                  process_url(Crawler(visited_urls, queued_urls \cup { url },
                                      stored, fetched),
                              url, DomainOf(options.college),
                              << Head(paths).type >>, 0, ok))
           ELSE UNCHANGED << visited_urls, queued_urls, stored, fetched >>
    /\ paths' = Tail(paths)
    /\ UNCHANGED << options, max_pages, cpc >>
    /\ OtherUnchanged

\* A popped URL that was already visited stays in the queue.
PopUrlKeepsVisited(url, ok) ==
    /\ IF ~ AlreadyVisited(url, visited_urls)
       THEN CrawlerBecomes(
              process_url(Crawler(visited_urls, queued_urls \ { url }, stored,
                                  fetched),
                          url, DomainOf(options.college), << >>, 1, ok))
       ELSE UNCHANGED << visited_urls, queued_urls, stored, fetched >>
    /\ UNCHANGED << options, max_pages, paths, cpc >>
    /\ OtherUnchanged

\* One turn of "Process the URL queue": set.pop() gives any element.
PopUrl(url, ok) ==
    /\ IF ~ AlreadyVisited(url, visited_urls)
       THEN CrawlerBecomes(
              process_url(Crawler(visited_urls, queued_urls \ { url }, stored,
                                  fetched),
                          url, DomainOf(options.college), << >>, 1, ok))
       ELSE /\ queued_urls' = queued_urls \ { url }
            /\ UNCHANGED << visited_urls, stored, fetched >>
    /\ UNCHANGED << options, max_pages, paths, cpc >>
    /\ OtherUnchanged

PopQueue ==
    /\ cpc = "paths"
    /\ paths = << >>
    /\ queued_urls # {}
    /\ ~ AtPageLimit(visited_urls)
    /\ \E url \in queued_urls, ok \in BOOLEAN : PopUrl(url, ok)

\* The queue loop ends and crawl_college returns.
FinishCrawl ==
    /\ cpc = "paths"
    /\ paths = << >>
    /\ ~ (queued_urls # {} /\ ~ AtPageLimit(visited_urls))
    /\ cpc' = "done"
    /\ UNCHANGED << options, max_pages, visited_urls, queued_urls, paths,
                    stored, fetched >>
    /\ OtherUnchanged

NextCrawl ==
    \/ \E ok \in BOOLEAN : StartCrawl(ok)
    \/ \E ok \in BOOLEAN : ProcessPath(ok)
    \/ PopQueue
    \/ FinishCrawl

SpecCrawl == InitCrawl /\ [][NextCrawl]_vars

\* crawl_college is one coroutine run to completion by the event loop, and
\* every fetch returns (with a page or a failure): a step that can be taken
\* is taken.
SpecCrawlLive == SpecCrawl /\ WF_vars(NextCrawl)

(***************************************************************************)
(* Properties of the crawl (SpecCrawl).                                    *)
(***************************************************************************)

\* C19: when the runner is started with --max-pages N, crawl_college ends
\* with at most N visited URLs.
C19_MaxPagesOption ==
    cpc = "done" /\ options.max_pages # << >>
    => Cardinality(visited_urls) <= options.max_pages[1]

\* C20: with DOMAIN_RESTRICT enabled, every URL in the crawl queue that
\* came from a discovered link has a host that is the college's domain or a
\* subdomain of it.
C20_QueuedOnCollegeSite ==
    cpc # "idle" /\ DOMAIN_RESTRICT
    => \A u \in queued_urls : SameSite(DomainOf(options.college), u.netloc)

\* C23: in every reachable state of crawl_college the number of visited
\* URLs is at most MAX_PAGES_PER_COLLEGE.
C23_VisitedWithinCap ==
    Cardinality(visited_urls) <= MAX_PAGES_PER_COLLEGE

\* The cap is reached on the endless chain of pages while URLs are still
\* queued.
C23_Witness ==
    /\ Cardinality(visited_urls) = MAX_PAGES_PER_COLLEGE
    /\ queued_urls # {}
    /\ \E u \in visited_urls : u.name = "page" /\ u.n > MAX_PAGES_PER_COLLEGE - 10

C25_DepthLimit ==
    \A u \in visited_urls :
        ( u.netloc = CollegeHost /\ u.name = "page" ) => u.n <= MAX_DEPTH

\* C27: crawl_college terminates, on the endless chain of pages too.
C27_CrawlTerminates == <>(cpc = "done")

\* The run on the endless chain has ended at the page cap with URLs left
\* in the queue.
C27_Witness ==
    /\ cpc = "done"
    /\ queued_urls # {}
    /\ Cardinality(visited_urls) = MAX_PAGES_PER_COLLEGE

(***************************************************************************)
(* AdmissionExtractor._determine_deadline_type                             *)
(*                                                                         *)
(* A context is the sequence of its characters, so that `term in context`  *)
(* is computed as the substring test it is: "latest" holds "test".         *)
(***************************************************************************)
MaxWords == 2

application_terms ==
    { << "a", "p", "p", "l", "i", "c", "a", "t", "i", "o", "n" >>,
      << "a", "p", "p", "l", "y" >>,
      << "r", "e", "g", "i", "s", "t", "r", "a", "t", "i", "o", "n" >>,
      << "r", "e", "g", "i", "s", "t", "e", "r" >>,
      << "f", "o", "r", "m" >> }

entrance_exam_terms ==
    { << "e", "n", "t", "r", "a", "n", "c", "e" >>,
      << "e", "x", "a", "m" >>,
      << "t", "e", "s", "t" >> }

result_declaration_terms ==
    { << "r", "e", "s", "u", "l", "t" >>,
      << "d", "e", "c", "l", "a", "r", "a", "t", "i", "o", "n" >>,
      << "a", "n", "n", "o", "u", "n", "c", "e" >>,
      << "p", "u", "b", "l", "i", "c", "a", "t", "i", "o", "n" >> }

interview_counselling_terms ==
    { << "i", "n", "t", "e", "r", "v", "i", "e", "w" >>,
      << "c", "o", "u", "n", "s", "e", "l", "l", "i", "n", "g" >>,
      << "c", "o", "u", "n", "s", "e", "l", "i", "n", "g" >>,
      << "s", "e", "l", "e", "c", "t", "i", "o", "n" >> }

fee_payment_terms ==
    { << "f", "e", "e" >>,
      << "p", "a", "y", "m", "e", "n", "t" >>,
      << "d", "e", "p", "o", "s", "i", "t" >> }

class_commencement_terms ==
    { << "c", "l", "a", "s", "s" >>,
      << "s", "t", "a", "r", "t" >>,
      << "c", "o", "m", "m", "e", "n", "c", "e", "m", "e", "n", "t" >>,
      << "b", "e", "g", "i", "n" >> }

\* any(term in context for term in [...])
AnyTermIn(terms, context) == \E t \in terms : IsSubstring(t, context)

\* The chain with the entrance-exam test ahead of the application test.
ExamBeforeApplication(context) ==
    LET c == Lower(context)
    IN  IF AnyTermIn(entrance_exam_terms, c) THEN "entrance_exam"
        ELSE IF AnyTermIn(application_terms, c) THEN "application"
        ELSE IF AnyTermIn(result_declaration_terms, c) THEN "result_declaration"
        ELSE IF AnyTermIn(interview_counselling_terms, c)
             THEN "interview_counselling"
        ELSE IF AnyTermIn(fee_payment_terms, c) THEN "fee_payment"
        ELSE IF AnyTermIn(class_commencement_terms, c) THEN "class_commencement"
        ELSE "other"

determine_deadline_type(context) ==
    LET c == Lower(context)
    IN  IF AnyTermIn(application_terms, c) THEN "application"
        ELSE IF AnyTermIn(entrance_exam_terms, c) THEN "entrance_exam"
        ELSE IF AnyTermIn(result_declaration_terms, c) THEN "result_declaration"
        ELSE IF AnyTermIn(interview_counselling_terms, c)
             THEN "interview_counselling"
        ELSE IF AnyTermIn(fee_payment_terms, c) THEN "fee_payment"
        ELSE IF AnyTermIn(class_commencement_terms, c) THEN "class_commencement"
        ELSE "other"

\* Inputs: contexts of up to MaxWords words, joined by spaces.
ContextWords ==
    { << "A", "p", "p", "l", "y" >>,
      << "E", "x", "a", "m" >>,
      << "F", "o", "r", "m" >>,
      << "l", "a", "t", "e", "s", "t" >>,
      << "r", "e", "s", "u", "l", "t" >>,
      << "I", "n", "t", "e", "r", "v", "i", "e", "w" >>,
      << "f", "e", "e" >>,
      << "c", "l", "a", "s", "s", "e", "s" >>,
      << "d", "a", "t", "e" >>,
      << "m", "e", "r", "i", "t" >>,
      << "S", "e", "l", "e", "c", "t", "i", "o", "n" >>,
      << "d", "e", "p", "o", "s", "i", "t" >> }

RECURSIVE JoinWords(_)
JoinWords(ws) ==
    IF ws = << >> THEN << >>
    ELSE IF Len(ws) = 1 THEN ws[1]
    ELSE ws[1] \o << " " >> \o JoinWords(Tail(ws))

DeadlineContexts == { JoinWords(ws) : ws \in SeqUpTo(ContextWords, MaxWords) }

InitDeadlineType ==
    /\ forceHealthy = FALSE
    /\ endpointConfigured = TRUE
    /\ ctype = "admission"
    /\ IdleRuns
    /\ IdleCrawl
    /\ IdleProcess
    /\ IdleBattery
    /\ IdleExtract
    /\ arg \in DeadlineContexts
    /\ ret = << >>
    /\ fpc = "ready"

CallDetermineDeadlineType ==
    /\ fpc = "ready"
    /\ ret' = determine_deadline_type(arg)
    /\ fpc' = "done"
    /\ UNCHANGED arg
    /\ UNCHANGED envVars
    /\ UNCHANGED runVars
    /\ UNCHANGED crawlVars
    /\ UNCHANGED procVars
    /\ UNCHANGED batteryVars
    /\ UNCHANGED extractVars

NextDeadlineType == CallDetermineDeadlineType

SpecDeadlineType == InitDeadlineType /\ [][NextDeadlineType]_vars

(***************************************************************************)
(* Properties of _determine_deadline_type (SpecDeadlineType).              *)
(***************************************************************************)

\* The keyword groups in the order of EventTypes.
DeadlineTerms ==
    << application_terms, entrance_exam_terms, result_declaration_terms,
       interview_counselling_terms, fee_payment_terms,
       class_commencement_terms >>

\* The groups one of whose terms occurs in the lowercased context.
MatchingGroups(context) ==
    { k \in DOMAIN DeadlineTerms :
        \E t \in DeadlineTerms[k] : IsSubstring(t, Lower(context)) }

\* C21: the type of a context is that of the earliest-listed keyword group
\* with a term in it, in the order application, entrance_exam,
\* result_declaration, interview_counselling, fee_payment,
\* class_commencement; a context matching no group is "other".
C21_FirstMatchingGroup ==
    fpc = "done"
    => IF MatchingGroups(arg) = {}
       THEN ret = "other"
       ELSE \E k \in MatchingGroups(arg) :
               /\ \A j \in MatchingGroups(arg) : k <= j
               /\ ret = EventTypes[k]

\* "latest Form" holds "test" and "form": two groups match and the
\* earlier-listed one is returned.
C21_Witness ==
    /\ fpc = "done"
    /\ arg = << "l", "a", "t", "e", "s", "t", " ", "F", "o", "r", "m" >>
    /\ MatchingGroups(arg) = { 1, 2 }
    /\ ret = "application"

(***************************************************************************)
(* process_crawled_data (run_crawler_debug.py, main_simplified.py) over    *)
(* the documents process_url and _process_embedded_content stored.  A      *)
(* string of content is what the extractors look at in it: whether it      *)
(* holds an "<html" or "<body" tag, its table elements, and the fields     *)
(* its text mentions.  ObjectIds are the positions in the collection.      *)
(* With --dry-run the function returns before the loop and changes         *)
(* nothing.                                                                *)
(***************************************************************************)
MaxDocs == 2

Markup(tagged, tables) ==
    [ isNull |-> FALSE, mentions |-> {}, tagged |-> tagged, tables |-> tables ]

\* get_text(...): the text nodes of the markup, no element left.
get_text(html) == [ html EXCEPT !.tagged = FALSE, !.tables = << >> ]

\* _extract_main_content: the text of the paragraphs, of the main
\* container or of the whole document.
extract_main_content(html) == get_text(html)

\* insert_raw_data: insert_one, the document gets the next ObjectId.
insert_raw_data(coll, page_type, raw_content, raw_html) ==
    Append(coll, [ id |-> Len(coll) + 1, page_type |-> page_type,
                   raw_content |-> raw_content, raw_html |-> raw_html ])

\* `for i, table in enumerate(tables)` of _process_embedded_content: each
\* table element is stored as a document of page type "table".
RECURSIVE StoreTables(_, _)
StoreTables(coll, tables) ==
    IF tables = << >> THEN coll
    ELSE StoreTables(insert_raw_data(coll, "table",
                                     get_text(Markup(FALSE, << Head(tables) >>)),
                                     Markup(FALSE, << Head(tables) >>)),
                     Tail(tables))

\* What process_url stores for a fetched page.
StorePage(coll, page) ==
    StoreTables(insert_raw_data(coll, page.page_type,
                                extract_main_content(page.content),
                                page.content),
                page.content.tables)

RECURSIVE StorePages(_)
StorePages(pages) ==
    IF pages = << >> THEN << >>
    ELSE StorePage(StorePages(SubSeq(pages, 1, Len(pages) - 1)),
                   pages[Len(pages)])

\* A table element with a header row and one data row.
SeatTable ==
    [ hasThead |-> FALSE, thead |-> << >>,
      body |-> << << HtmlCell("th", "Year"), HtmlCell("th", "Pkg") >>,
                  << HtmlCell("td", "1"), HtmlCell("td", "2") >> >> ]

\* The pages fetched: with and without html/body tags, with and without a
\* table.
FetchedPages ==
    [ page_type : { "admission", "placement", "general" },
      content : { Markup(tagged, tables) :
                    tagged \in BOOLEAN,
                    tables \in { << >>, << SeatTable >> } } ]

\* "Extract basic text if HTML provided": the tables handed to the field
\* extractors.
TablesOf(c) == IF c.tagged THEN extract_tables(c.tables) ELSE << >>

\* get_processed_data({"raw_data_id": ...})
get_processed_data(coll, raw_data_id) ==
    SelectSeq(coll, LAMBDA p : p.raw_data_id = raw_data_id)

\* No document counts as processed.
NeverProcessed(coll, raw_data_id) == FALSE

\* "Check if we've already processed this data"
AlreadyProcessed(coll, raw_data_id) ==
    get_processed_data(coll, raw_data_id) # << >>

InitProcess ==
    /\ forceHealthy = FALSE
    /\ endpointConfigured = TRUE
    /\ ctype = "admission"
    /\ IdleRuns
    /\ IdleCrawl
    /\ IdleBattery
    /\ IdleField
    /\ adapter \in { "none", "AIProcessor" }
    /\ content = [ isNull |-> FALSE, mentions |-> {} ]
    /\ oracle = [ f \in AllFields |-> "ok_empty" ]
    /\ xpc = "idle"
    /\ record = NoRecord
    /\ raw_data \in { StorePages(pages) : pages \in SeqUpTo(FetchedPages, MaxDocs) }
    /\ processed_data = << >>
    /\ pending = << >>
    /\ processed_count = 0
    /\ finished = 0
    /\ ppc = "idle"

ProcessUnchanged ==
    /\ UNCHANGED envVars
    /\ UNCHANGED runVars
    /\ UNCHANGED crawlVars
    /\ UNCHANGED batteryVars
    /\ UNCHANGED extractVars
    /\ UNCHANGED fieldVars

\* raw_data = db.get_raw_data(query); processed_count = 0
StartProcess ==
    /\ ppc = "idle"
    /\ finished < MaxRuns
    /\ pending' = raw_data
    /\ processed_count' = 0
    /\ ppc' = "loop"
    /\ UNCHANGED <<raw_data, processed_data, finished>>
    /\ ProcessUnchanged

\* One pass of `for data in raw_data`.
ProcessDoc ==
    /\ ppc = "loop"
    /\ pending # << >>
    /\ LET data == Head(pending)
       IN  IF \/ AlreadyProcessed(processed_data, data.id)
              \/ data.page_type \notin { "admission", "placement" }
           THEN UNCHANGED <<processed_data, processed_count>>
           ELSE LET rec == IF data.page_type = "admission"
                           THEN extract_admission_data(data.raw_content, adapter,
                                                       oracle, endpointConfigured)
                           ELSE extract_placement_data(data.raw_content, adapter,
                                                       oracle, endpointConfigured)
                IN  IF rec.status = "returned"
                    THEN /\ processed_data' =
                              Append(processed_data,
                                     [ raw_data_id |-> data.id,
                                       content_type |-> data.page_type,
                                       tables |-> TablesOf(data.raw_content),
                                       data |-> rec.data ])
                         /\ processed_count' = processed_count + 1
                    ELSE UNCHANGED <<processed_data, processed_count>>
    /\ pending' = Tail(pending)
    /\ UNCHANGED <<raw_data, finished, ppc>>
    /\ ProcessUnchanged

\* The loop is over: the count is logged.
EndProcess ==
    /\ ppc = "loop"
    /\ pending = << >>
    /\ ppc' = "idle"
    /\ finished' = finished + 1
    /\ UNCHANGED <<raw_data, processed_data, pending, processed_count>>
    /\ ProcessUnchanged

NextProcess == StartProcess \/ ProcessDoc \/ EndProcess

SpecProcess == InitProcess /\ [][NextProcess]_vars

(***************************************************************************)
(* Properties of process_crawled_data (SpecProcess).                       *)
(***************************************************************************)
\* C26: over any number of sequential runs on the same raw data there is
\* at most one processed record per raw_data_id, and a run that follows a
\* completed run inserts nothing.
C26_SkipIfProcessed ==
    /\ \A i, j \in DOMAIN processed_data :
         processed_data[i].raw_data_id = processed_data[j].raw_data_id => i = j
    /\ ( finished >= 1 /\ ppc = "loop" ) => processed_count = 0
    /\ finished >= 2 => processed_count = 0

\* A second run has gone over two processed documents and inserted nothing.
C26_Witness ==
    /\ finished = 2
    /\ ppc = "idle"
    /\ Len(processed_data) = 2
    /\ processed_count = 0

\* C30: the record process_crawled_data inserts for a crawled page that
\* contains a table is extracted with that table at hand: the tables given
\* to the field extractors, from which alone category_wise, course_wise
\* and year_wise are filled, are not empty.
C30_TablesReachRecords ==
    \A i \in DOMAIN processed_data :
        LET data == raw_data[processed_data[i].raw_data_id]
        IN  extract_tables(data.raw_html.tables) # << >>
                => processed_data[i].tables # << >>

(***************************************************************************)
(* CollegeCrawler._determine_page_type on the text of a page: the counts   *)
(* it takes from the text (crawler.py, config/settings.py,                 *)
(* config/targets.py).  Each list names a term once, so the sum over the   *)
(* list is the number of its terms found in the text.                      *)
(***************************************************************************)
ADMISSION_KEYWORDS ==
    { << "a", "d", "m", "i", "s", "s", "i", "o", "n" >>,
      << "a", "d", "m", "i", "s", "s", "i", "o", "n", "s" >>,
      << "e", "n", "r", "o", "l", "l" >>,
      << "a", "p", "p", "l", "y" >>,
      << "a", "p", "p", "l", "i", "c", "a", "t", "i", "o", "n" >>,
      << "c", "o", "u", "r", "s", "e", "s" >>,
      << "e", "l", "i", "g", "i", "b", "i", "l", "i", "t", "y" >>,
      << "q", "u", "a", "l", "i", "f", "i", "c", "a", "t", "i", "o", "n" >>,
      << "f", "e", "e", "s" >>,
      << "h", "o", "s", "t", "e", "l" >>,
      << "d", "e", "a", "d", "l", "i", "n", "e" >>,
      << "d", "a", "t", "e", "s" >>,
      << "s", "e", "a", "t", "s" >>,
      << "c", "a", "p", "a", "c", "i", "t", "y" >>,
      << "r", "e", "s", "e", "r", "v", "a", "t", "i", "o", "n" >> }

PLACEMENT_KEYWORDS ==
    { << "p", "l", "a", "c", "e", "m", "e", "n", "t" >>,
      << "p", "l", "a", "c", "e", "m", "e", "n", "t", "s" >>,
      << "c", "a", "r", "e", "e", "r" >>,
      << "c", "a", "r", "e", "e", "r", "s" >>,
      << "r", "e", "c", "r", "u", "i", "t" >>,
      << "r", "e", "c", "r", "u", "i", "t", "m", "e", "n", "t" >>,
      << "j", "o", "b", "s" >>,
      << "s", "a", "l", "a", "r", "y" >>,
      << "p", "a", "c", "k", "a", "g", "e" >>,
      << "c", "o", "m", "p", "a", "n", "i", "e", "s" >>,
      << "h", "i", "r", "i", "n", "g" >>,
      << "i", "n", "t", "e", "r", "n", "s", "h", "i", "p" >>,
      << "i", "n", "t", "e", "r", "n", "s", "h", "i", "p", "s" >>,
      << "c", "o", "m", "p", "a", "n", "y" >>,
      << "p", "l", "a", "c", "e", "d" >> }

PAGE_CONTENT_INDICATORS ==
    [ admission |->
        { << "a", "d", "m", "i", "s", "s", "i", "o", "n", " ", "p", "r", "o", "c", "e", "s", "s" >>,
          << "h", "o", "w", " ", "t", "o", " ", "a", "p", "p", "l", "y" >>,
          << "e", "l", "i", "g", "i", "b", "i", "l", "i", "t", "y", " ", "c", "r", "i", "t", "e", "r", "i", "a" >>,
          << "i", "m", "p", "o", "r", "t", "a", "n", "t", " ", "d", "a", "t", "e", "s" >>,
          << "a", "p", "p", "l", "i", "c", "a", "t", "i", "o", "n", " ", "f", "o", "r", "m" >>,
          << "e", "n", "t", "r", "a", "n", "c", "e", " ", "e", "x", "a", "m" >>,
          << "a", "d", "m", "i", "s", "s", "i", "o", "n", " ", "s", "c", "h", "e", "d", "u", "l", "e" >>,
          << "f", "e", "e", " ", "s", "t", "r", "u", "c", "t", "u", "r", "e" >>,
          << "h", "o", "s", "t", "e", "l", " ", "f", "a", "c", "i", "l", "i", "t", "y" >>,
          << "s", "e", "a", "t", " ", "m", "a", "t", "r", "i", "x" >>,
          << "r", "e", "s", "e", "r", "v", "a", "t", "i", "o", "n", " ", "p", "o", "l", "i", "c", "y" >>,
          << "r", "e", "q", "u", "i", "r", "e", "d", " ", "d", "o", "c", "u", "m", "e", "n", "t", "s" >> },
      placement |->
        { << "p", "l", "a", "c", "e", "m", "e", "n", "t", " ", "r", "e", "c", "o", "r", "d" >>,
          << "p", "l", "a", "c", "e", "m", "e", "n", "t", " ", "s", "t", "a", "t", "i", "s", "t", "i", "c", "s" >>,
          << "r", "e", "c", "r", "u", "i", "t", "i", "n", "g", " ", "c", "o", "m", "p", "a", "n", "i", "e", "s" >>,
          << "h", "i", "g", "h", "e", "s", "t", " ", "p", "a", "c", "k", "a", "g", "e" >>,
          << "a", "v", "e", "r", "a", "g", "e", " ", "p", "a", "c", "k", "a", "g", "e" >>,
          << "m", "e", "d", "i", "a", "n", " ", "s", "a", "l", "a", "r", "y" >>,
          << "p", "l", "a", "c", "e", "m", "e", "n", "t", " ", "c", "e", "l", "l" >>,
          << "i", "n", "t", "e", "r", "n", "s", "h", "i", "p", " ", "o", "p", "p", "o", "r", "t", "u", "n", "i", "t", "i", "e", "s" >>,
          << "c", "a", "m", "p", "u", "s", " ", "r", "e", "c", "r", "u", "i", "t", "m", "e", "n", "t" >>,
          << "p", "l", "a", "c", "e", "m", "e", "n", "t", " ", "b", "r", "o", "c", "h", "u", "r", "e" >>,
          << "p", "l", "a", "c", "e", "m", "e", "n", "t", " ", "r", "e", "p", "o", "r", "t" >>,
          << "r", "e", "c", "r", "u", "i", "t", "i", "n", "g", " ", "p", "a", "r", "t", "n", "e", "r", "s" >> } ]

\* sum(1 for term in terms if term in text)
CountIn(terms, text) == Cardinality({ t \in terms : IsSubstring(t, text) })

\* The classifier's answer and the four counts of a page with that text.
PageOf(text, classification) ==
    LET t == Lower(text)
    IN  PageContent(<< >>, classification,
                    CountIn(PAGE_CONTENT_INDICATORS["admission"], t),
                    CountIn(PAGE_CONTENT_INDICATORS["placement"], t),
                    CountIn(ADMISSION_KEYWORDS, t),
                    CountIn(PLACEMENT_KEYWORDS, t))

\* Inputs: page texts of up to MaxWords phrases, and the classifier
\* failing, unsure, at the threshold and sure.
PagePhrases ==
    { << "M", "e", "d", "i", "a", "n", " ", "S", "a", "l", "a", "r", "y" >>,
      << "h", "o", "s", "t", "e", "l", " ", "f", "e", "e", "s" >>,
      << "H", "o", "w", " ", "t", "o", " ", "a", "p", "p", "l", "y" >>,
      << "p", "l", "a", "c", "e", "m", "e", "n", "t", " ", "c", "e", "l", "l" >>,
      << "s", "e", "a", "t", " ", "m", "a", "t", "r", "i", "x" >>,
      << "c", "a", "r", "e", "e", "r" >>,
      << "w", "e", "l", "c", "o", "m", "e" >>,
      << "C", "o", "m", "p", "a", "n", "i", "e", "s", " ", "h", "i", "r", "i", "n", "g" >> }

PageTexts == { JoinWords(ws) : ws \in SeqUpTo(PagePhrases, MaxWords) }

Classifications ==
    { NoAnswer, Answer("placement", 50), Answer("general", 60),
      Answer("admission", 90) }

InitPageType ==
    /\ forceHealthy = FALSE
    /\ endpointConfigured = TRUE
    /\ ctype = "admission"
    /\ IdleRuns
    /\ IdleCrawl
    /\ IdleProcess
    /\ IdleBattery
    /\ IdleExtract
    /\ arg \in [ text : PageTexts, classification : Classifications ]
    /\ ret = << >>
    /\ fpc = "ready"

CallDeterminePageType ==
    /\ fpc = "ready"
    /\ ret' = determine_page_type(PageOf(arg.text, arg.classification))
    /\ fpc' = "done"
    /\ UNCHANGED arg
    /\ UNCHANGED envVars
    /\ UNCHANGED runVars
    /\ UNCHANGED crawlVars
    /\ UNCHANGED procVars
    /\ UNCHANGED batteryVars
    /\ UNCHANGED extractVars

NextPageType == CallDeterminePageType

SpecPageType == InitPageType /\ [][NextPageType]_vars

(***************************************************************************)
(* Properties of _determine_page_type (SpecPageType).                      *)
(***************************************************************************)
\* The page with the admission and the placement counts exchanged.
Exchanged(page) ==
    PageContent(page.links, page.classification,
                page.placement_count, page.admission_count,
                page.placement_keyword_count, page.admission_keyword_count)

ExchangedClass(class) ==
    CASE class = "admission" -> "placement"
      [] class = "placement" -> "admission"
      [] OTHER               -> class

\* C29: when the classifier gave no answer or one of confidence <= 0.6,
\* exchanging the admission and placement counts exchanges the results
\* admission and placement and keeps general, and a page with more
\* placement indicators than admission indicators is not "admission".
C29_FallbackSymmetric ==
    LET page == PageOf(arg.text, arg.classification)
    IN  ( /\ fpc = "done"
          /\ ~ ( page.classification.ok /\ page.classification.confidence > 60 ) )
        => /\ determine_page_type(Exchanged(page)) = ExchangedClass(ret)
           /\ page.placement_count > page.admission_count => ret # "admission"

====
